---- MODULE Spec2Model ----
(***************************************************************************)
(* Threshold ECDSA (pkg/tecdsa/signer.go): distributed key generation and  *)
(* the six signing rounds of [GGN 16], as a state machine driven by an     *)
(* orchestrator that broadcasts every message to every signer.             *)
(*                                                                         *)
(* The elliptic curve is a real curve of prime order, small enough to      *)
(* enumerate; the Paillier cryptosystem, the commitment scheme and the     *)
(* zero-knowledge proofs are modelled by their contracts.                  *)
(***************************************************************************)
EXTENDS Integers, Sequences, FiniteSets, TLC

(***************************************************************************)
(* PublicParameters                                                        *)
(***************************************************************************)
GroupSize == 3
Threshold == 2

\* Curve: y^2 = x^3 + CurveA*x + CurveB over GF(CurveP), with CurveN points
\* (a prime), base point (CurveGx, CurveGy).
CurveP == 11
CurveA == 6
CurveB == 6
CurveN == 7
CurveGx == 2
CurveGy == 2

\* Mutant: a Paillier modulus of about q^7.
PaillierNBelowBound == CurveN^7 + 1

\* Paillier modulus: [GGN 16] requires N > q^8.
PaillierN == CurveN^8 + 1

curveCardinality == CurveN

Signers == 1..GroupSize

Nil == [nil |-> TRUE]

(***************************************************************************)
(* Bounds of the model                                                     *)
(***************************************************************************)
\* Random scalars of Z_q are drawn from 0..MaxLowScalar and q-1.
MaxLowScalar == 1
\* The last byte of a 32-byte message digest is drawn from 0..MaxDigestByte.
MaxDigestByte == 2

RandomScalars == (0..MaxLowScalar) \cup {curveCardinality - 1}

(***************************************************************************)
(* big.Int helpers                                                         *)
(***************************************************************************)
Mod(a, m) == a % m

Rsh1(a) == a \div 2

\* big.Int.ModInverse: -1 stands for the nil result returned when g has no
\* inverse modulo n.
ModInverse(g, n) ==
    IF \E z \in 1..(n - 1) : (Mod(g, n) * z) % n = 1
    THEN CHOOSE z \in 1..(n - 1) : (Mod(g, n) * z) % n = 1
    ELSE -1

RECURSIVE SetBytesFrom(_, _, _)
SetBytesFrom(bytes, k, acc) ==
    IF k > Len(bytes) THEN acc
    ELSE SetBytesFrom(bytes, k + 1, acc * 256 + bytes[k])

\* big.Int.SetBytes: the big-endian unsigned integer of a byte slice.
SetBytes(bytes) == SetBytesFrom(bytes, 1, 0)

(***************************************************************************)
(* Elliptic curve (crypto/elliptic): affine arithmetic, (0,0) is the point *)
(* at infinity.                                                            *)
(***************************************************************************)
Point(x, y) == [X |-> x, Y |-> y]

Infinity == Point(0, 0)

Generator == Point(CurveGx, CurveGy)

FieldInv(a) == CHOOSE z \in 1..(CurveP - 1) : (Mod(a, CurveP) * z) % CurveP = 1

IsOnCurve(P) ==
    (P.Y * P.Y) % CurveP = (P.X * P.X * P.X + CurveA * P.X + CurveB) % CurveP

CurveAdd(P, Q) ==
    IF P = Infinity THEN Q
    ELSE IF Q = Infinity THEN P
    ELSE IF P.X = Q.X /\ (P.Y + Q.Y) % CurveP = 0 THEN Infinity
    ELSE LET lam == IF P = Q
                    THEN ((3 * P.X * P.X + CurveA) * FieldInv(2 * P.Y)) % CurveP
                    ELSE ((Q.Y - P.Y + CurveP) * FieldInv(Q.X - P.X + CurveP)) % CurveP
             x3 == (lam * lam + 2 * CurveP - P.X - Q.X) % CurveP
             y3 == (lam * (P.X - x3 + CurveP) + CurveP - P.Y) % CurveP
         IN Point(x3, y3)

RECURSIVE ScalarMult(_, _)
ScalarMult(P, k) ==
    IF k = 0 THEN Infinity ELSE CurveAdd(P, ScalarMult(P, k - 1))

ScalarBaseMult(k) == ScalarMult(Generator, k)

CurvePoints == { ScalarBaseMult(k) : k \in 0..(CurveN - 1) }

(***************************************************************************)
(* Paillier threshold cryptosystem (github.com/keep-network/paillier).     *)
(* A ciphertext is identified by the plaintext it decrypts to.             *)
(***************************************************************************)
Cypher(m) == [pt |-> Mod(m, PaillierN)]

EncryptWithR(m) == Cypher(m)

RECURSIVE PaillierSum(_, _)
PaillierSum(cyphers, k) ==
    IF k > Len(cyphers) THEN 0 ELSE cyphers[k].pt + PaillierSum(cyphers, k + 1)

\* paillierKey.Add(cyphers...)
PaillierAdd(cyphers) == Cypher(PaillierSum(cyphers, 1))

\* paillierKey.Mul(cypher, scalar)
PaillierMul(cypher, scalar) == Cypher(cypher.pt * scalar)

\* paillierKey.Decrypt(c) of a threshold key: the partial decryption of
\* the key share with the given Id.
PartialDecrypt(id, cypher) == [Id |-> id, Decryption |-> cypher]

\* paillierKey.CombinePartialDecryptions(shares)
CombinePartialDecryptions(shares) ==
    IF Len(shares) < Threshold
    THEN [ok |-> FALSE, err |-> "threshold not met"]
    ELSE IF Cardinality({ shares[k].Id : k \in 1..Len(shares) }) # Len(shares)
    THEN [ok |-> FALSE, err |-> "two shares created by the same server"]
    ELSE IF \E k \in 1..Len(shares) : shares[k].Decryption # shares[1].Decryption
    THEN [ok |-> FALSE, err |-> "inconsistent shares"]
    ELSE [ok |-> TRUE, plaintext |-> shares[1].Decryption.pt]

(***************************************************************************)
(* Commitment scheme (pkg/tecdsa/commitment): binding to the committed     *)
(* values and to the decommitment key.                                     *)
(***************************************************************************)
DecommitmentKeys == {"d1", "d2"}

CommitmentGenerate(values, key) ==
    [commitment |-> [to |-> values, key |-> key], decommitmentKey |-> key]

CommitmentVerify(commitment, decommitmentKey, values) ==
    commitment.to = values /\ commitment.key = decommitmentKey

(***************************************************************************)
(* Zero-knowledge proofs (pkg/tecdsa/zkp): a proof records the statement   *)
(* it was built for and whether the prover's witness satisfies it; it      *)
(* verifies only against that statement, and only if the witness did.      *)
(***************************************************************************)
\* zkp.CommitDsaPaillierKeyRange: E(secretKeyShare) and g^secretKeyShare.
CommitDsaPaillierKeyRange(secretKeyShare, publicKeyShare, encryptedSecretKeyShare) ==
    [stmt  |-> <<encryptedSecretKeyShare, publicKeyShare>>,
     valid |-> /\ encryptedSecretKeyShare = Cypher(secretKeyShare)
               /\ publicKeyShare = ScalarBaseMult(secretKeyShare)
               /\ secretKeyShare \in 0..(curveCardinality - 1)]

\* zkp.CommitDsaPaillierSecretKeyFactorRange: u_i = E(rho_i), v_i = E(rho_i * x).
CommitDsaPaillierSecretKeyFactorRange(secretKeyMultipleShare, secretKey, encryptedSecretKeyFactorShare, secretKeyFactorShare) ==
    [stmt  |-> <<secretKeyMultipleShare, secretKey, encryptedSecretKeyFactorShare>>,
     valid |-> /\ encryptedSecretKeyFactorShare = Cypher(secretKeyFactorShare)
               /\ secretKeyMultipleShare = PaillierMul(secretKey, secretKeyFactorShare)
               /\ secretKeyFactorShare \in 0..(curveCardinality - 1)]

\* zkp.CommitEcdsaSignatureFactorRangeProof: r_i = g^k_i, w_i = E(k_i*rho + c_i*q).
CommitEcdsaSignatureFactorRangeProof(signatureFactorPublicShare, signatureUnmaskShare, secretKeyFactor, signatureFactorSecretShare, signatureFactorMaskShare) ==
    [stmt  |-> <<signatureFactorPublicShare, signatureUnmaskShare, secretKeyFactor>>,
     valid |-> /\ signatureFactorPublicShare = ScalarBaseMult(signatureFactorSecretShare)
               /\ signatureUnmaskShare =
                      PaillierAdd(<<PaillierMul(secretKeyFactor, signatureFactorSecretShare),
                                    Cypher(signatureFactorMaskShare * curveCardinality)>>)
               /\ signatureFactorSecretShare \in 0..(curveCardinality - 1)
               /\ signatureFactorMaskShare \in 0..(curveCardinality^6 - 1)]

ProofVerify(proof, stmt) == proof.valid /\ proof.stmt = stmt

BadProof == [stmt |-> <<>>, valid |-> FALSE]

(***************************************************************************)
(* Key generation: LocalSigner                                             *)
(***************************************************************************)
Ok(value) == [ok |-> TRUE, value |-> value]

Error(text) == [ok |-> FALSE, err |-> text]

\* fmt.Errorf("no matching ... for signer with ID=%v", signerID)
ErrorForSigner(text, signerID) == [ok |-> FALSE, err |-> text, signerID |-> signerID]

\* generateDsaKeyShare, for the value secretKeyShare drawn by rand.Int.
generateDsaKeyShare(secretKeyShare) ==
    [secretKeyShare |-> secretKeyShare,
     publicKeyShare |-> ScalarBaseMult(secretKeyShare)]

PublicKeyShareCommitmentMessage(signerID, commitment) ==
    [signerID |-> signerID, publicKeyShareCommitment |-> commitment]

KeyShareRevealMessage(signerID, secretKeyShare, publicKeyShare, decommitmentKey, proof) ==
    [signerID                      |-> signerID,
     secretKeyShare                |-> secretKeyShare,
     publicKeyShare                |-> publicKeyShare,
     publicKeyShareDecommitmentKey |-> decommitmentKey,
     secretKeyProof                |-> proof]

\* KeyShareRevealMessage.isValid: the public key share opens the commitment
\* and the range proof verifies for the revealed shares.
KeyShareRevealIsValid(msg, commitment) ==
    /\ CommitmentVerify(commitment, msg.publicKeyShareDecommitmentKey,
                        <<msg.publicKeyShare>>)
    /\ ProofVerify(msg.secretKeyProof, <<msg.secretKeyShare, msg.publicKeyShare>>)

\* The reveal messages whose signerID is that of the commitment message, in
\* the order the inner loop meets them.
MatchingReveals(commitmentMsg, revealedShares) ==
    SelectSeq(revealedShares, LAMBDA m : m.signerID = commitmentMsg.signerID)

Last(seq) == seq[Len(seq)]

RECURSIVE CurveSumFrom(_, _)
CurveSumFrom(points, k) ==
    IF k > Len(points) THEN Infinity
    ELSE CurveAdd(points[k], CurveSumFrom(points, k + 1))

\* publicKey := shares[0]; for share in shares[1:] publicKey = Add(publicKey, share)
RECURSIVE FoldCurveAdd(_, _, _)
FoldCurveAdd(acc, points, k) ==
    IF k > Len(points) THEN acc
    ELSE FoldCurveAdd(CurveAdd(acc, points[k]), points, k + 1)

\* Mutant: the loop over shares[1:] starts one element late.
SumPointsSkipSecond(points) == FoldCurveAdd(points[1], points, 3)

SumPoints(points) == FoldCurveAdd(points[1], points, 2)

\* Mutant: the lists are only required to be long enough.
DsaAttendanceAtLeast(shareCommitments, revealedShares) ==
    IF Len(shareCommitments) < GroupSize
    THEN Error("commitments required from all group members")
    ELSE IF Len(revealedShares) < GroupSize
    THEN Error("all group members should reveal shares")
    ELSE Ok(Nil)

\* The two length checks that open CombineDsaKeyShares.
DsaAttendance(shareCommitments, revealedShares) ==
    IF Len(shareCommitments) # GroupSize
    THEN Error("commitments required from all group members")
    ELSE IF Len(revealedShares) # GroupSize
    THEN Error("all group members should reveal shares")
    ELSE Ok(Nil)

\* Mutant: a matching reveal message is taken without validating it.
DsaMatchUnchecked(commitmentMsg, revealedShares) ==
    LET matching == MatchingReveals(commitmentMsg, revealedShares)
    IN IF Len(matching) = 0
       THEN ErrorForSigner("no matching share reveal message", commitmentMsg.signerID)
       ELSE Ok(Last(matching))

\* One pass of the outer loop: the matching of one commitment message.
DsaMatch(commitmentMsg, revealedShares) ==
    LET matching == MatchingReveals(commitmentMsg, revealedShares)
    IN IF \E k \in 1..Len(matching) :
              ~KeyShareRevealIsValid(matching[k], commitmentMsg.publicKeyShareCommitment)
       THEN Error("KeyShareRevealMessage rejected")
       ELSE IF Len(matching) = 0
       THEN ErrorForSigner("no matching share reveal message", commitmentMsg.signerID)
       ELSE Ok(Last(matching))

\* Mutant: the first encrypted share is left out of the sum.
DsaCombineSharesDropFirst(shares) ==
    [secretKey |-> PaillierAdd([k \in 1..(Len(shares) - 1) |-> shares[k + 1].secretKeyShare]),
     publicKey |-> SumPoints([k \in 1..Len(shares) |-> shares[k].publicKeyShare])]

\* secretKey := Add(secretKeyShares...); publicKey := sum of publicKeyShares
DsaCombineShares(shares) ==
    [secretKey |-> PaillierAdd([k \in 1..Len(shares) |-> shares[k].secretKeyShare]),
     publicKey |-> SumPoints([k \in 1..Len(shares) |-> shares[k].publicKeyShare])]

\* Mutant: the loop goes on after a failure and the last one is returned.
CombineDsaKeySharesLastFailure(shareCommitments, revealedShares) ==
    LET attendance == DsaAttendance(shareCommitments, revealedShares)
        matches == [k \in 1..Len(shareCommitments) |->
                        DsaMatch(shareCommitments[k], revealedShares)]
        failed == { k \in 1..Len(shareCommitments) : ~matches[k].ok }
        last == CHOOSE k \in failed : \A j \in failed : k >= j
    IN IF ~attendance.ok THEN attendance
       ELSE IF failed # {} THEN matches[last]
       ELSE Ok(DsaCombineShares([k \in 1..Len(shareCommitments) |-> matches[k].value]))

\* LocalSigner.CombineDsaKeyShares
CombineDsaKeyShares(shareCommitments, revealedShares) ==
    LET attendance == DsaAttendance(shareCommitments, revealedShares)
        matches == [k \in 1..Len(shareCommitments) |->
                        DsaMatch(shareCommitments[k], revealedShares)]
        failed == { k \in 1..Len(shareCommitments) : ~matches[k].ok }
        first == CHOOSE k \in failed : \A j \in failed : k <= j
    IN IF ~attendance.ok THEN attendance
       ELSE IF failed # {} THEN matches[first]
       ELSE Ok(DsaCombineShares([k \in 1..Len(shareCommitments) |-> matches[k].value]))

(***************************************************************************)
(* Signing: the typed round states Signer -> Round1Signer -> ... ->        *)
(* Round5Signer and the messages of the six rounds.                        *)
(***************************************************************************)
NewSigner(id, dsaKey) == [type |-> "Signer", ID |-> id, dsaKey |-> dsaKey]

\* Signer.PublicEcdsaKey
PublicEcdsaKey(s) == s.dsaKey.publicKey

\* The embedded Signer of a round signer.
EmbeddedSigner(s) == NewSigner(s.ID, s.dsaKey)

\* Signer.SignRound1, for the rho_i drawn by rand.Int and the decommitment
\* key drawn by commitment.Generate.
SignRound1(s, secretKeyFactorShare, decommitmentKey) ==
    LET encryptedSecretKeyFactorShare == EncryptWithR(secretKeyFactorShare)
        secretKeyMultiple == PaillierMul(s.dsaKey.secretKey, secretKeyFactorShare)
        com == CommitmentGenerate(<<encryptedSecretKeyFactorShare, secretKeyMultiple>>,
                                  decommitmentKey)
    IN [signer |->
            [type                                |-> "Round1Signer",
             ID                                  |-> s.ID,
             dsaKey                              |-> s.dsaKey,
             secretKeyFactorShare                |-> secretKeyFactorShare,
             encryptedSecretKeyFactorShare       |-> encryptedSecretKeyFactorShare,
             secretKeyMultipleShare              |-> secretKeyMultiple,
             secretKeyFactorShareDecommitmentKey |-> com.decommitmentKey],
        message |->
            [signerID                       |-> s.ID,
             secretKeyFactorShareCommitment |-> com.commitment]]

\* Round1Signer.SignRound2
SignRound2(s) ==
    LET zkp == CommitDsaPaillierSecretKeyFactorRange(
                   s.secretKeyMultipleShare, s.dsaKey.secretKey,
                   s.encryptedSecretKeyFactorShare, s.secretKeyFactorShare)
    IN [signer  |-> [type |-> "Round2Signer", ID |-> s.ID, dsaKey |-> s.dsaKey],
        message |->
            [signerID                            |-> s.ID,
             secretKeyFactorShare                |-> s.encryptedSecretKeyFactorShare,
             secretKeyMultipleShare              |-> s.secretKeyMultipleShare,
             secretKeyFactorShareDecommitmentKey |-> s.secretKeyFactorShareDecommitmentKey,
             secretKeyFactorProof                |-> zkp]]

\* SignRound2Message.isValid
Round2MessageIsValid(msg, commitment, dsaSecretKey) ==
    /\ CommitmentVerify(commitment, msg.secretKeyFactorShareDecommitmentKey,
                        <<msg.secretKeyFactorShare, msg.secretKeyMultipleShare>>)
    /\ ProofVerify(msg.secretKeyFactorProof,
                   <<msg.secretKeyMultipleShare, dsaSecretKey, msg.secretKeyFactorShare>>)

\* Mutant: a threshold of messages is enough.
Round2AttendanceThreshold(round1Messages, round2Messages) ==
    IF Len(round1Messages) < Threshold
    THEN Error("round 1 messages required from all group members")
    ELSE IF Len(round2Messages) < Threshold
    THEN Error("round 2 messages required from all group members")
    ELSE Ok(Nil)

\* Mutant: only the round-1 list is counted.
Round2AttendanceFirstListOnly(round1Messages, round2Messages) ==
    IF Len(round1Messages) # GroupSize
    THEN Error("round 1 messages required from all group members")
    ELSE Ok(Nil)

\* The two length checks that open CombineRound2Messages.
Round2Attendance(round1Messages, round2Messages) ==
    IF Len(round1Messages) # GroupSize
    THEN Error("round 1 messages required from all group members")
    ELSE IF Len(round2Messages) # GroupSize
    THEN Error("round 2 messages required from all group members")
    ELSE Ok(Nil)

Round2Match(s, round1Message, round2Messages) ==
    LET matching == SelectSeq(round2Messages,
                              LAMBDA m : m.signerID = round1Message.signerID)
    IN IF \E k \in 1..Len(matching) :
              ~Round2MessageIsValid(matching[k],
                                    round1Message.secretKeyFactorShareCommitment,
                                    s.dsaKey.secretKey)
       THEN Error("round 2 message rejected")
       ELSE IF Len(matching) = 0
       THEN ErrorForSigner("no matching round 2 message", round1Message.signerID)
       ELSE Ok(Last(matching))

Round2CombineShares(shares) ==
    [secretKeyFactor   |->
         PaillierAdd([k \in 1..Len(shares) |-> shares[k].secretKeyFactorShare]),
     secretKeyMultiple |->
         PaillierAdd([k \in 1..Len(shares) |-> shares[k].secretKeyMultipleShare])]

\* Round2Signer.CombineRound2Messages
CombineRound2Messages(s, round1Messages, round2Messages) ==
    LET attendance == Round2Attendance(round1Messages, round2Messages)
        matches == [k \in 1..Len(round1Messages) |->
                        Round2Match(s, round1Messages[k], round2Messages)]
        failed == { k \in 1..Len(round1Messages) : ~matches[k].ok }
        first == CHOOSE k \in failed : \A j \in failed : k <= j
    IN IF ~attendance.ok THEN attendance
       ELSE IF failed # {} THEN matches[first]
       ELSE Ok(Round2CombineShares([k \in 1..Len(round1Messages) |-> matches[k].value]))

\* Round2Signer.SignRound3, for the k_i and c_i drawn by rand.Int and the
\* decommitment key drawn by commitment.Generate.
SignRound3(s, secretKeyFactor, secretKeyMultiple, signatureFactorSecretShare, signatureFactorMaskShare, decommitmentKey) ==
    LET signatureFactorPublicShare == ScalarBaseMult(signatureFactorSecretShare)
        maskShareMulCardinality ==
            EncryptWithR(signatureFactorMaskShare * curveCardinality)
        signatureUnmaskShare ==
            PaillierAdd(<<PaillierMul(secretKeyFactor, signatureFactorSecretShare),
                          maskShareMulCardinality>>)
        com == CommitmentGenerate(<<signatureFactorPublicShare, signatureUnmaskShare>>,
                                  decommitmentKey)
    IN [signer |->
            [type                                |-> "Round3Signer",
             ID                                  |-> s.ID,
             dsaKey                              |-> s.dsaKey,
             secretKeyFactor                     |-> secretKeyFactor,
             secretKeyMultiple                   |-> secretKeyMultiple,
             signatureFactorSecretShare          |-> signatureFactorSecretShare,
             signatureFactorPublicShare          |-> signatureFactorPublicShare,
             signatureFactorMaskShare            |-> signatureFactorMaskShare,
             signatureUnmaskShare                |-> signatureUnmaskShare,
             signatureFactorShareDecommitmentKey |-> com.decommitmentKey],
        message |->
            [signerID                       |-> s.ID,
             signatureFactorShareCommitment |-> com.commitment]]

\* Mutant: round 4 hands back the state of round 5.
SignRound4AsRound5(s) ==
    LET zkp == CommitEcdsaSignatureFactorRangeProof(
                   s.signatureFactorPublicShare, s.signatureUnmaskShare,
                   s.secretKeyFactor, s.signatureFactorSecretShare,
                   s.signatureFactorMaskShare)
    IN [signer |->
            [type              |-> "Round5Signer",
             ID                |-> s.ID,
             dsaKey            |-> s.dsaKey,
             secretKeyFactor   |-> s.secretKeyFactor,
             secretKeyMultiple |-> s.secretKeyMultiple],
        message |->
            [signerID                            |-> s.ID,
             signatureFactorPublicShare          |-> s.signatureFactorPublicShare,
             signatureUnmaskShare                |-> s.signatureUnmaskShare,
             signatureFactorShareDecommitmentKey |-> s.signatureFactorShareDecommitmentKey,
             signatureFactorProof                |-> zkp]]

\* Round3Signer.SignRound4
SignRound4(s) ==
    LET zkp == CommitEcdsaSignatureFactorRangeProof(
                   s.signatureFactorPublicShare, s.signatureUnmaskShare,
                   s.secretKeyFactor, s.signatureFactorSecretShare,
                   s.signatureFactorMaskShare)
    IN [signer |->
            [type              |-> "Round4Signer",
             ID                |-> s.ID,
             dsaKey            |-> s.dsaKey,
             secretKeyFactor   |-> s.secretKeyFactor,
             secretKeyMultiple |-> s.secretKeyMultiple],
        message |->
            [signerID                            |-> s.ID,
             signatureFactorPublicShare          |-> s.signatureFactorPublicShare,
             signatureUnmaskShare                |-> s.signatureUnmaskShare,
             signatureFactorShareDecommitmentKey |-> s.signatureFactorShareDecommitmentKey,
             signatureFactorProof                |-> zkp]]

\* SignRound4Message.isValid
Round4MessageIsValid(msg, commitment, secretKeyFactor) ==
    /\ CommitmentVerify(commitment, msg.signatureFactorShareDecommitmentKey,
                        <<msg.signatureFactorPublicShare, msg.signatureUnmaskShare>>)
    /\ ProofVerify(msg.signatureFactorProof,
                   <<msg.signatureFactorPublicShare, msg.signatureUnmaskShare,
                     secretKeyFactor>>)

Round4Attendance(round3Messages, round4Messages) ==
    IF Len(round3Messages) # GroupSize
    THEN Error("round 3 messages required from all group members")
    ELSE IF Len(round4Messages) # GroupSize
    THEN Error("round 4 messages required from all group members")
    ELSE Ok(Nil)

Round4Match(s, round3Message, round4Messages) ==
    LET matching == SelectSeq(round4Messages,
                              LAMBDA m : m.signerID = round3Message.signerID)
    IN IF \E k \in 1..Len(matching) :
              ~Round4MessageIsValid(matching[k],
                                    round3Message.signatureFactorShareCommitment,
                                    s.secretKeyFactor)
       THEN Error("round 4 message rejected")
       ELSE IF Len(matching) = 0
       THEN ErrorForSigner("no matching round 4 message", round3Message.signerID)
       ELSE Ok(Last(matching))

Round4CombineShares(shares) ==
    [signatureUnmask       |->
         PaillierAdd([k \in 1..Len(shares) |-> shares[k].signatureUnmaskShare]),
     signatureFactorPublic |->
         SumPoints([k \in 1..Len(shares) |-> shares[k].signatureFactorPublicShare])]

\* Mutant: a sender whose round-4 message is missing or rejected is left
\* out and the shares of the others are summed.
CombineRound4MessagesSkipBad(s, round3Messages, round4Messages) ==
    LET attendance == Round4Attendance(round3Messages, round4Messages)
        matches == [k \in 1..Len(round3Messages) |->
                        Round4Match(s, round3Messages[k], round4Messages)]
        good == SelectSeq(matches, LAMBDA m : m.ok)
    IN IF ~attendance.ok THEN attendance
       ELSE IF Len(good) = 0 THEN matches[1]
       ELSE Ok(Round4CombineShares([k \in 1..Len(good) |-> good[k].value]))

\* Round4Signer.CombineRound4Messages
CombineRound4Messages(s, round3Messages, round4Messages) ==
    LET attendance == Round4Attendance(round3Messages, round4Messages)
        matches == [k \in 1..Len(round3Messages) |->
                        Round4Match(s, round3Messages[k], round4Messages)]
        failed == { k \in 1..Len(round3Messages) : ~matches[k].ok }
        first == CHOOSE k \in failed : \A j \in failed : k <= j
    IN IF ~attendance.ok THEN attendance
       ELSE IF failed # {} THEN matches[first]
       ELSE Ok(Round4CombineShares([k \in 1..Len(round3Messages) |-> matches[k].value]))

\* Mutant: r is taken from the other coordinate of R.
SignRound5HashOfY(s, signatureUnmask, signatureFactorPublic) ==
    LET signatureUnmaskPartialDecryption == PartialDecrypt(s.ID, signatureUnmask)
        signatureFactorPublicHash == Mod(signatureFactorPublic.Y, curveCardinality)
    IN [signer |->
            [type                      |-> "Round5Signer",
             ID                        |-> s.ID,
             dsaKey                    |-> s.dsaKey,
             secretKeyFactor           |-> s.secretKeyFactor,
             secretKeyMultiple         |-> s.secretKeyMultiple,
             signatureUnmask           |-> signatureUnmask,
             signatureFactorPublic     |-> signatureFactorPublic,
             signatureFactorPublicHash |-> signatureFactorPublicHash],
        message |->
            [signerID                         |-> s.ID,
             signatureUnmaskPartialDecryption |-> signatureUnmaskPartialDecryption]]

\* Round4Signer.SignRound5
SignRound5(s, signatureUnmask, signatureFactorPublic) ==
    LET signatureUnmaskPartialDecryption == PartialDecrypt(s.ID, signatureUnmask)
        signatureFactorPublicHash == Mod(signatureFactorPublic.X, curveCardinality)
    IN [signer |->
            [type                      |-> "Round5Signer",
             ID                        |-> s.ID,
             dsaKey                    |-> s.dsaKey,
             secretKeyFactor           |-> s.secretKeyFactor,
             secretKeyMultiple         |-> s.secretKeyMultiple,
             signatureUnmask           |-> signatureUnmask,
             signatureFactorPublic     |-> signatureFactorPublic,
             signatureFactorPublicHash |-> signatureFactorPublicHash],
        message |->
            [signerID                         |-> s.ID,
             signatureUnmaskPartialDecryption |-> signatureUnmaskPartialDecryption]]

\* Round5Signer.CombineRound5Messages
CombineRound5Messages(s, round5Messages) ==
    IF Len(round5Messages) # GroupSize
    THEN Error("round 5 messages required from all group members")
    ELSE LET partialDecryptions ==
                 [k \in 1..Len(round5Messages) |->
                      round5Messages[k].signatureUnmaskPartialDecryption]
             combined == CombinePartialDecryptions(partialDecryptions)
         IN IF combined.ok THEN Ok(combined.plaintext)
            ELSE Error("could not combine signature unmask partial decryptions")

HashLength == 32

\* Mutant: the length of the hash is checked after the signature cypher has
\* been computed.
SignRound6LateCheck(s, signatureUnmask, messageHash) ==
    LET inverse == ModInverse(signatureUnmask, curveCardinality)
        signatureCypher ==
            PaillierMul(
                PaillierAdd(<<PaillierMul(s.secretKeyFactor, SetBytes(messageHash)),
                              PaillierMul(s.secretKeyMultiple,
                                          s.signatureFactorPublicHash)>>),
                inverse)
    IN IF inverse = -1
       THEN [ok |-> FALSE, err |-> "panic: nil pointer dereference", panic |-> TRUE]
       ELSE IF Len(messageHash) # HashLength
       THEN Error("message hash is required to be exactly 32 bytes")
       ELSE Ok([signaturePartialDecryption |-> PartialDecrypt(s.ID, signatureCypher)])

\* Round5Signer.SignRound6.  A signatureUnmask without inverse modulo the
\* curve order makes ModInverse return nil, and paillierKey.Mul then
\* dereferences it: the call panics.
SignRound6(s, signatureUnmask, messageHash) ==
    IF Len(messageHash) # HashLength
    THEN Error("message hash is required to be exactly 32 bytes")
    ELSE LET inverse == ModInverse(signatureUnmask, curveCardinality)
             signatureCypher ==
                 PaillierMul(
                     PaillierAdd(<<PaillierMul(s.secretKeyFactor, SetBytes(messageHash)),
                                   PaillierMul(s.secretKeyMultiple,
                                               s.signatureFactorPublicHash)>>),
                     inverse)
         IN IF inverse = -1
            THEN [ok |-> FALSE, err |-> "panic: nil pointer dereference", panic |-> TRUE]
            ELSE Ok([signaturePartialDecryption |-> PartialDecrypt(s.ID, signatureCypher)])

\* Mutant: the comparison with halfOrder is >= instead of >.
NormalizeSFromHalf(sign) ==
    LET halfOrder == Rsh1(curveCardinality)
    IN IF sign >= halfOrder THEN curveCardinality - sign ELSE sign

\* The low-s normalisation that closes CombineRound6Messages.
NormalizeS(sign) ==
    LET halfOrder == Rsh1(curveCardinality)
    IN IF sign > halfOrder THEN curveCardinality - sign ELSE sign

\* Mutant: a threshold of round-6 messages is enough.
CombineRound6MessagesQuorum(s, round6Messages) ==
    IF Len(round6Messages) < Threshold
    THEN Error("round 6 messages required from all group members")
    ELSE LET partialDecryptions ==
                 [k \in 1..Len(round6Messages) |->
                      round6Messages[k].signaturePartialDecryption]
             combined == CombinePartialDecryptions(partialDecryptions)
         IN IF ~combined.ok
            THEN Error("could not combine signature partial decryptions")
            ELSE Ok([R |-> s.signatureFactorPublicHash,
                     S |-> NormalizeS(Mod(combined.plaintext, curveCardinality))])

\* Round5Signer.CombineRound6Messages
CombineRound6Messages(s, round6Messages) ==
    IF Len(round6Messages) # GroupSize
    THEN Error("round 6 messages required from all group members")
    ELSE LET partialDecryptions ==
                 [k \in 1..Len(round6Messages) |->
                      round6Messages[k].signaturePartialDecryption]
             combined == CombinePartialDecryptions(partialDecryptions)
         IN IF ~combined.ok
            THEN Error("could not combine signature partial decryptions")
            ELSE Ok([R |-> s.signatureFactorPublicHash,
                     S |-> NormalizeS(Mod(combined.plaintext, curveCardinality))])

(***************************************************************************)
(* State                                                                   *)
(***************************************************************************)
VARIABLES
    stage,             \* per signer: the type of state it holds / its position
    ls,                \* per signer: the LocalSigner fields set during key generation
    signer,            \* per signer: its Signer / Round-N signer value
    shareCommitments,  \* broadcast PublicKeyShareCommitmentMessages
    revealedShares,    \* broadcast KeyShareRevealMessages
    present,           \* the signers taking part in the signing session
    roundMessages,     \* broadcast messages of signing rounds 1..6
    ret,               \* per signer: what its last combine step returned
    messageHash,       \* the digest being signed (empty until round 6)
    signature,         \* per signer: what CombineRound6Messages returned
    advFn,             \* the combine step handed the lists below
    advFirst,          \* commitment-round messages as an adversary delivers them
    advSecond,         \* reveal-round messages as an adversary delivers them
    advFaults,         \* how many messages the adversary has tampered with
    advOut,            \* what the combine step returned for these lists
    sessions,          \* concurrent signing sessions of one group of Signers
    fm,                \* the ResultSigningMember verifying DKG result signatures
    verifyCall,        \* its last VerifyDKGResultSignatures call: input and output
    localChain,        \* the local chain: tickets, groups, handlers, block height
    calc               \* a call of a pure function: its input and its result

advVars == <<advFn, advFirst, advSecond, advFaults, advOut>>

\* The state of the components beside the signing core.
componentVars == <<fm, verifyCall, localChain, calc>>

vars == <<stage, ls, signer, shareCommitments, revealedShares, present,
          roundMessages, ret, messageHash, signature, advVars, sessions,
          componentVars>>

keygenVars == <<ls, shareCommitments, revealedShares>>

NewLocalSigner ==
    [dsaKeyShare |-> Nil, publicDsaKeyShareDecommitmentKey |-> Nil]

NoMessages == [r \in 1..6 |-> <<>>]

\* No signing session runs beside the one of `present`.
NoSessions == <<>>

\* The components beside the signing core are not in use.
ComponentsIdle ==
    /\ fm = Nil
    /\ verifyCall = Nil
    /\ localChain = Nil
    /\ calc = Nil

\* 32-byte digests whose last byte ranges over 0..MaxDigestByte and over q.
MessageHashes ==
    { [k \in 1..HashLength |-> IF k = HashLength THEN b ELSE 0] :
          b \in (0..MaxDigestByte) \cup {curveCardinality} }

\* The mask c_i is drawn from [0, q^6): its largest value.
MaskShares == {curveCardinality^6 - 1}

Orders(n) ==
    { f \in [1..n -> 1..n] : \A a, b \in 1..n : f[a] = f[b] => a = b }

Permute(seq, f) == [k \in 1..Len(seq) |-> seq[f[k]]]

Init ==
    /\ stage = [i \in Signers |-> "LocalSigner"]
    /\ ls = [i \in Signers |-> NewLocalSigner]
    /\ signer = [i \in Signers |-> Nil]
    /\ shareCommitments = <<>>
    /\ revealedShares = <<>>
    /\ present = {}
    /\ roundMessages = NoMessages
    /\ ret = [i \in Signers |-> Nil]
    /\ messageHash = <<>>
    /\ signature = [i \in Signers |-> Nil]
    /\ advFn = "none"
    /\ advFirst = <<>>
    /\ advSecond = <<>>
    /\ advFaults = 0
    /\ advOut = Nil
    /\ sessions = NoSessions
    /\ ComponentsIdle

\* The orchestrator runs each step for the members of a group in the order
\* of their IDs: signer i takes the step from stage `from` when the signers
\* before it have taken it and those after it have not.
Turn(i, group, from, to) ==
    /\ i \in group
    /\ stage[i] = from
    /\ \A j \in group \ {i} :
           IF j < i THEN stage[j] \in to ELSE stage[j] = from

IsLast(i, group) == \A j \in group : j <= i

(***************************************************************************)
(* Key generation steps                                                    *)
(***************************************************************************)
InitializeDsaKeyShares(i) ==
    /\ Turn(i, Signers, "LocalSigner", {"Committed"})
    /\ \E secretKeyShare \in RandomScalars :
          LET keyShare == generateDsaKeyShare(secretKeyShare)
              com == CommitmentGenerate(<<keyShare.publicKeyShare>>, "d1")
          IN /\ ls' = [ls EXCEPT ![i] =
                          [dsaKeyShare |-> keyShare,
                           publicDsaKeyShareDecommitmentKey |-> com.decommitmentKey]]
             /\ shareCommitments' =
                    Append(shareCommitments,
                           PublicKeyShareCommitmentMessage(i, com.commitment))
    /\ stage' = [stage EXCEPT ![i] = "Committed"]
    /\ UNCHANGED <<signer, revealedShares, present, roundMessages, ret,
                   messageHash, signature, advVars, sessions, componentVars>>

RevealDsaKeyShares(i) ==
    /\ Turn(i, Signers, "Committed", {"Revealed"})
    /\ LET encryptedSecretKeyShare == EncryptWithR(ls[i].dsaKeyShare.secretKeyShare)
           rangeProof == CommitDsaPaillierKeyRange(
                             ls[i].dsaKeyShare.secretKeyShare,
                             ls[i].dsaKeyShare.publicKeyShare,
                             encryptedSecretKeyShare)
       IN revealedShares' =
              Append(revealedShares,
                     KeyShareRevealMessage(i, encryptedSecretKeyShare,
                                           ls[i].dsaKeyShare.publicKeyShare,
                                           ls[i].publicDsaKeyShareDecommitmentKey,
                                           rangeProof))
    /\ stage' = [stage EXCEPT ![i] = "Revealed"]
    /\ UNCHANGED <<ls, signer, shareCommitments, present, roundMessages, ret,
                   messageHash, signature, advVars, sessions, componentVars>>

\* Signer i combines the messages in the order it received them; on success
\* it becomes a Signer holding the ThresholdDsaKey.
DoCombineDsaKeyShares(i) ==
    /\ Turn(i, Signers, "Revealed", {"Signer", "Failed"})
    /\ \E f \in Orders(Len(shareCommitments)),
          g \in Orders(Len(revealedShares)) :
          LET result == CombineDsaKeyShares(Permute(shareCommitments, f),
                                            Permute(revealedShares, g))
          IN /\ ret' = [ret EXCEPT ![i] = result]
             /\ signer' = [signer EXCEPT ![i] =
                              IF result.ok THEN NewSigner(i, result.value) ELSE Nil]
             /\ stage' = [stage EXCEPT ![i] = IF result.ok THEN "Signer" ELSE "Failed"]
    /\ UNCHANGED <<ls, shareCommitments, revealedShares, present, roundMessages,
                   messageHash, signature, advVars, sessions, componentVars>>

(***************************************************************************)
(* Signing session steps                                                   *)
(***************************************************************************)
\* A signing session starts among a qualifying subset of the group; the
\* key generation state is no longer referenced.
StartSession ==
    /\ present = {}
    /\ \A i \in Signers : stage[i] = "Signer"
    /\ \E group \in SUBSET Signers :
          /\ Cardinality(group) >= Threshold
          /\ present' = group
    /\ ls' = [i \in Signers |-> NewLocalSigner]
    /\ shareCommitments' = <<>>
    /\ revealedShares' = <<>>
    /\ ret' = [i \in Signers |-> Nil]
    /\ UNCHANGED <<stage, signer, roundMessages, messageHash, signature, advVars, sessions, componentVars>>

Broadcast(round, message) ==
    roundMessages' = [roundMessages EXCEPT ![round] = Append(@, message)]

DoSignRound1(i) ==
    /\ Turn(i, present, "Signer", {"Round1Signer"})
    /\ \E secretKeyFactorShare \in RandomScalars :
          LET r == SignRound1(signer[i], secretKeyFactorShare, "d1")
          IN /\ signer' = [signer EXCEPT ![i] = r.signer]
             /\ Broadcast(1, r.message)
    /\ stage' = [stage EXCEPT ![i] = "Round1Signer"]
    /\ UNCHANGED <<keygenVars, present, ret, messageHash, signature, advVars, sessions, componentVars>>

DoSignRound2(i) ==
    /\ Turn(i, present, "Round1Signer", {"Round2Signer"})
    /\ LET r == SignRound2(signer[i])
       IN /\ signer' = [signer EXCEPT ![i] = r.signer]
          /\ Broadcast(2, r.message)
    /\ stage' = [stage EXCEPT ![i] = "Round2Signer"]
    /\ UNCHANGED <<keygenVars, present, ret, messageHash, signature, advVars, sessions, componentVars>>

\* The messages of two rounds are dropped once the last signer has combined
\* them.
DropRounds(i, a, b) ==
    roundMessages' =
        IF IsLast(i, present)
        THEN [roundMessages EXCEPT ![a] = <<>>, ![b] = <<>>]
        ELSE roundMessages

DoCombineRound2Messages(i) ==
    /\ Turn(i, present, "Round2Signer", {"Combined2", "Failed"})
    /\ LET result == CombineRound2Messages(signer[i], roundMessages[1], roundMessages[2])
       IN /\ ret' = [ret EXCEPT ![i] = result]
          /\ stage' = [stage EXCEPT ![i] = IF result.ok THEN "Combined2" ELSE "Failed"]
    /\ DropRounds(i, 1, 2)
    /\ UNCHANGED <<keygenVars, signer, present, messageHash, signature, advVars, sessions, componentVars>>

DoSignRound3(i) ==
    /\ Turn(i, present, "Combined2", {"Round3Signer"})
    /\ \E signatureFactorSecretShare \in RandomScalars,
          signatureFactorMaskShare \in MaskShares :
          LET r == SignRound3(signer[i], ret[i].value.secretKeyFactor,
                              ret[i].value.secretKeyMultiple,
                              signatureFactorSecretShare, signatureFactorMaskShare, "d1")
          IN /\ signer' = [signer EXCEPT ![i] = r.signer]
             /\ Broadcast(3, r.message)
    /\ ret' = [ret EXCEPT ![i] = Nil]
    /\ stage' = [stage EXCEPT ![i] = "Round3Signer"]
    /\ UNCHANGED <<keygenVars, present, messageHash, signature, advVars, sessions, componentVars>>

DoSignRound4(i) ==
    /\ Turn(i, present, "Round3Signer", {"Round4Signer"})
    /\ LET r == SignRound4(signer[i])
       IN /\ signer' = [signer EXCEPT ![i] = r.signer]
          /\ Broadcast(4, r.message)
    /\ stage' = [stage EXCEPT ![i] = "Round4Signer"]
    /\ UNCHANGED <<keygenVars, present, ret, messageHash, signature, advVars, sessions, componentVars>>

DoCombineRound4Messages(i) ==
    /\ Turn(i, present, "Round4Signer", {"Combined4", "Failed"})
    /\ LET result == CombineRound4Messages(signer[i], roundMessages[3], roundMessages[4])
       IN /\ ret' = [ret EXCEPT ![i] = result]
          /\ stage' = [stage EXCEPT ![i] = IF result.ok THEN "Combined4" ELSE "Failed"]
    /\ DropRounds(i, 3, 4)
    /\ UNCHANGED <<keygenVars, signer, present, messageHash, signature, advVars, sessions, componentVars>>

DoSignRound5(i) ==
    /\ Turn(i, present, "Combined4", {"Round5Signer"})
    /\ LET r == SignRound5(signer[i], ret[i].value.signatureUnmask,
                           ret[i].value.signatureFactorPublic)
       IN /\ signer' = [signer EXCEPT ![i] = r.signer]
          /\ Broadcast(5, r.message)
    /\ ret' = [ret EXCEPT ![i] = Nil]
    /\ stage' = [stage EXCEPT ![i] = "Round5Signer"]
    /\ UNCHANGED <<keygenVars, present, messageHash, signature, advVars, sessions, componentVars>>

DoCombineRound5Messages(i) ==
    /\ Turn(i, present, "Round5Signer", {"Combined5", "Failed"})
    /\ LET result == CombineRound5Messages(signer[i], roundMessages[5])
       IN /\ ret' = [ret EXCEPT ![i] = result]
          /\ stage' = [stage EXCEPT ![i] = IF result.ok THEN "Combined5" ELSE "Failed"]
    /\ UNCHANGED <<keygenVars, signer, present, roundMessages, messageHash, signature, advVars, sessions, componentVars>>

\* Every signer of a session signs the same digest: the first call fixes it.
DoSignRound6(i) ==
    /\ Turn(i, present, "Combined5", {"Sent6", "Panicked"})
    /\ \E hash \in MessageHashes :
          /\ messageHash \in {<<>>, hash}
          /\ messageHash' = hash
          /\ LET result == SignRound6(signer[i], ret[i].value, hash)
             IN /\ roundMessages' =
                       IF result.ok
                       THEN [roundMessages EXCEPT ![6] = Append(@, result.value)]
                       ELSE roundMessages
                /\ stage' = [stage EXCEPT ![i] = IF result.ok THEN "Sent6" ELSE "Panicked"]
    /\ UNCHANGED <<keygenVars, signer, present, ret, signature, advVars, sessions, componentVars>>

DoCombineRound6Messages(i) ==
    /\ Turn(i, present, "Sent6", {"Done"})
    /\ signature' = [signature EXCEPT ![i] =
                         CombineRound6Messages(signer[i], roundMessages[6])]
    /\ stage' = [stage EXCEPT ![i] = "Done"]
    /\ UNCHANGED <<keygenVars, signer, present, roundMessages, ret, messageHash, advVars, sessions, componentVars>>

Next ==
    \/ \E i \in Signers : InitializeDsaKeyShares(i)
    \/ \E i \in Signers : RevealDsaKeyShares(i)
    \/ \E i \in Signers : DoCombineDsaKeyShares(i)
    \/ StartSession
    \/ \E i \in Signers : DoSignRound1(i)
    \/ \E i \in Signers : DoSignRound2(i)
    \/ \E i \in Signers : DoCombineRound2Messages(i)
    \/ \E i \in Signers : DoSignRound3(i)
    \/ \E i \in Signers : DoSignRound4(i)
    \/ \E i \in Signers : DoCombineRound4Messages(i)
    \/ \E i \in Signers : DoSignRound5(i)
    \/ \E i \in Signers : DoCombineRound5Messages(i)
    \/ \E i \in Signers : DoSignRound6(i)
    \/ \E i \in Signers : DoCombineRound6Messages(i)

Spec == Init /\ [][Next]_vars

(***************************************************************************)
(* The combine steps under an adversary.  The lists start as the messages  *)
(* of GroupSize honest signers; the adversary, who controls delivery, may  *)
(* drop, replay, substitute or forge up to MaxFaults messages before a     *)
(* signer combines the lists.                                              *)
(***************************************************************************)
MaxFaults == 3

\* The secret (key share, rho_i or k_i) of honest signer i in these runs.
AdvSecret(i) == i

OtherSecret(secret) == (secret + 1) % curveCardinality

AdvDsaKey ==
    DsaCombineShares([i \in Signers |->
        [secretKeyShare |-> EncryptWithR(AdvSecret(i)),
         publicKeyShare |-> ScalarBaseMult(AdvSecret(i))]])

AdvRound2Signer == [type |-> "Round2Signer", ID |-> 1, dsaKey |-> AdvDsaKey]

AdvSecretKeyFactor ==
    Round2CombineShares([i \in Signers |->
        SignRound2(SignRound1(NewSigner(i, AdvDsaKey), AdvSecret(i), "d1").signer).message])

AdvRound4Signer ==
    [type              |-> "Round4Signer",
     ID                |-> 1,
     dsaKey            |-> AdvDsaKey,
     secretKeyFactor   |-> AdvSecretKeyFactor.secretKeyFactor,
     secretKeyMultiple |-> AdvSecretKeyFactor.secretKeyMultiple]

AdvMask == curveCardinality^6 - 1

\* What signer `id` holds after its commitment round, for the given secret
\* and decommitment key, and the commitment message it sends.
AdvCommitRound(fn, id, secret, key) ==
    IF fn = "dsa"
    THEN LET keyShare == generateDsaKeyShare(secret)
             com == CommitmentGenerate(<<keyShare.publicKeyShare>>, key)
         IN [signer  |-> [dsaKeyShare |-> keyShare,
                          publicDsaKeyShareDecommitmentKey |-> com.decommitmentKey],
             message |-> PublicKeyShareCommitmentMessage(id, com.commitment)]
    ELSE IF fn = "round2"
    THEN SignRound1(NewSigner(id, AdvDsaKey), secret, key)
    ELSE SignRound3([type |-> "Round2Signer", ID |-> id, dsaKey |-> AdvDsaKey],
                    AdvSecretKeyFactor.secretKeyFactor,
                    AdvSecretKeyFactor.secretKeyMultiple, secret, AdvMask, key)

AdvFirstMessage(fn, id, secret, key) == AdvCommitRound(fn, id, secret, key).message

\* The reveal-round message of signer `id`.
AdvSecondMessage(fn, id, secret, key) ==
    LET held == AdvCommitRound(fn, id, secret, key).signer
    IN IF fn = "dsa"
       THEN KeyShareRevealMessage(
                id, EncryptWithR(held.dsaKeyShare.secretKeyShare),
                held.dsaKeyShare.publicKeyShare,
                held.publicDsaKeyShareDecommitmentKey,
                CommitDsaPaillierKeyRange(held.dsaKeyShare.secretKeyShare,
                                          held.dsaKeyShare.publicKeyShare,
                                          EncryptWithR(held.dsaKeyShare.secretKeyShare)))
       ELSE IF fn = "round2" THEN SignRound2(held).message
       ELSE SignRound4(held).message

WithBadProof(fn, m) ==
    IF fn = "dsa" THEN [m EXCEPT !.secretKeyProof = BadProof]
    ELSE IF fn = "round2" THEN [m EXCEPT !.secretKeyFactorProof = BadProof]
    ELSE [m EXCEPT !.signatureFactorProof = BadProof]

ForgeKinds == {"proof", "value", "key", "sender"}

\* A forged reveal-round message in place of m.
Forged(fn, m, kind) ==
    IF kind = "proof" THEN WithBadProof(fn, m)
    ELSE IF kind = "value"
    THEN AdvSecondMessage(fn, m.signerID, OtherSecret(AdvSecret(m.signerID)), "d1")
    ELSE IF kind = "key"
    THEN AdvSecondMessage(fn, m.signerID, AdvSecret(m.signerID), "d2")
    ELSE [m EXCEPT !.signerID = 1 + (m.signerID % GroupSize)]

RemoveAt(seq, k) == [j \in 1..(Len(seq) - 1) |-> IF j < k THEN seq[j] ELSE seq[j + 1]]

AdvInitFor(fns) ==
    /\ stage = [i \in Signers |-> "LocalSigner"]
    /\ ls = [i \in Signers |-> NewLocalSigner]
    /\ signer = [i \in Signers |-> Nil]
    /\ shareCommitments = <<>>
    /\ revealedShares = <<>>
    /\ present = {}
    /\ roundMessages = NoMessages
    /\ ret = [i \in Signers |-> Nil]
    /\ messageHash = <<>>
    /\ signature = [i \in Signers |-> Nil]
    /\ advFn \in fns
    /\ advFirst = [i \in Signers |-> AdvFirstMessage(advFn, i, AdvSecret(i), "d1")]
    /\ advSecond = [i \in Signers |-> AdvSecondMessage(advFn, i, AdvSecret(i), "d1")]
    /\ advFaults = 0
    /\ advOut = Nil
    /\ sessions = NoSessions
    /\ ComponentsIdle

mainVars == <<stage, ls, signer, shareCommitments, revealedShares, present,
              roundMessages, ret, messageHash, signature, sessions>>

Tamper ==
    /\ advOut = Nil
    /\ advFaults < MaxFaults
    /\ advFaults' = advFaults + 1
    /\ UNCHANGED <<mainVars, advFn, advOut, componentVars>>

\* A message never reaches the combining signer.
AdvDrop ==
    /\ Tamper
    /\ \/ \E k \in 1..Len(advFirst) :
             advFirst' = RemoveAt(advFirst, k) /\ UNCHANGED advSecond
       \/ \E k \in 1..Len(advSecond) :
             advSecond' = RemoveAt(advSecond, k) /\ UNCHANGED advFirst

\* A message is delivered a second time.
AdvReplay ==
    /\ Tamper
    /\ \/ \E k \in 1..Len(advFirst) :
             advFirst' = Append(advFirst, advFirst[k]) /\ UNCHANGED advSecond
       \/ \E k \in 1..Len(advSecond) :
             advSecond' = Append(advSecond, advSecond[k]) /\ UNCHANGED advFirst

\* A message is delivered in place of another one.
AdvSubstitute ==
    /\ Tamper
    /\ \/ \E k, j \in 1..Len(advFirst) :
             k # j /\ advFirst' = [advFirst EXCEPT ![j] = advFirst[k]]
                   /\ UNCHANGED advSecond
       \/ \E k, j \in 1..Len(advSecond) :
             k # j /\ advSecond' = [advSecond EXCEPT ![j] = advSecond[k]]
                   /\ UNCHANGED advFirst

\* A sender commits to another value, or reveals something it did not
\* commit to.
AdvForge ==
    /\ Tamper
    /\ \/ \E k \in 1..Len(advFirst) :
             /\ advFirst' = [advFirst EXCEPT ![k] =
                    AdvFirstMessage(advFn, @.signerID,
                                    OtherSecret(AdvSecret(@.signerID)), "d1")]
             /\ UNCHANGED advSecond
       \/ \E k \in 1..Len(advSecond), kind \in ForgeKinds :
             /\ advSecond' = [advSecond EXCEPT ![k] = Forged(advFn, @, kind)]
             /\ UNCHANGED advFirst

AdvCombineDsaKeyShares ==
    /\ advFn = "dsa"
    /\ advOut = Nil
    /\ advOut' = CombineDsaKeyShares(advFirst, advSecond)
    /\ UNCHANGED <<mainVars, advFn, advFirst, advSecond, advFaults, componentVars>>

AdvCombineRound2Messages ==
    /\ advFn = "round2"
    /\ advOut = Nil
    /\ advOut' = CombineRound2Messages(AdvRound2Signer, advFirst, advSecond)
    /\ UNCHANGED <<mainVars, advFn, advFirst, advSecond, advFaults, componentVars>>

AdvCombineRound4Messages ==
    /\ advFn = "round4"
    /\ advOut = Nil
    /\ advOut' = CombineRound4Messages(AdvRound4Signer, advFirst, advSecond)
    /\ UNCHANGED <<mainVars, advFn, advFirst, advSecond, advFaults, componentVars>>

AdvTamper == AdvDrop \/ AdvReplay \/ AdvSubstitute \/ AdvForge

AdvDsaInit == AdvInitFor({"dsa"})

AdvDsaNext == AdvTamper \/ AdvCombineDsaKeyShares

\* CombineDsaKeyShares on adversarially delivered lists.
AdvDsaSpec == AdvDsaInit /\ [][AdvDsaNext]_vars

AdvRoundInit == AdvInitFor({"round2", "round4"})

AdvRoundNext == AdvTamper \/ AdvCombineRound2Messages \/ AdvCombineRound4Messages

\* CombineRound2Messages and CombineRound4Messages on adversarially
\* delivered lists.
AdvRoundSpec == AdvRoundInit /\ [][AdvRoundNext]_vars

AdvCombineInit == AdvInitFor({"dsa", "round2", "round4"})

AdvCombineNext ==
    \/ AdvDrop
    \/ AdvReplay
    \/ AdvSubstitute
    \/ AdvForge
    \/ AdvCombineDsaKeyShares
    \/ AdvCombineRound2Messages
    \/ AdvCombineRound4Messages

\* The three ID-matched combine steps on adversarially delivered lists.
AdvCombineSpec == AdvCombineInit /\ [][AdvCombineNext]_vars

(***************************************************************************)
(* The decryption rounds under the same adversary: the round-5 and round-6 *)
(* messages of GroupSize honest signers, tampered with before a signer     *)
(* combines them.                                                          *)
(***************************************************************************)
AdvRound4Messages ==
    [i \in Signers |-> AdvSecondMessage("round4", i, AdvSecret(i), "d1")]

AdvSignatureFactor == Round4CombineShares(AdvRound4Messages)

\* What signer `id` holds and sends after SignRound5.
AdvRound5(id) ==
    SignRound5([AdvRound4Signer EXCEPT !.ID = id],
               AdvSignatureFactor.signatureUnmask,
               AdvSignatureFactor.signatureFactorPublic)

AdvRound5Messages == [i \in Signers |-> AdvRound5(i).message]

AdvSignatureUnmask ==
    CombineRound5Messages(AdvRound5(1).signer, AdvRound5Messages).value

AdvMessageHash == [k \in 1..HashLength |-> IF k = HashLength THEN 1 ELSE 0]

AdvRound6Messages ==
    [i \in Signers |->
        SignRound6(AdvRound5(i).signer, AdvSignatureUnmask, AdvMessageHash).value]

AdvDecryptInit ==
    /\ stage = [i \in Signers |-> "LocalSigner"]
    /\ ls = [i \in Signers |-> NewLocalSigner]
    /\ signer = [i \in Signers |-> Nil]
    /\ shareCommitments = <<>>
    /\ revealedShares = <<>>
    /\ present = {}
    /\ roundMessages = NoMessages
    /\ ret = [i \in Signers |-> Nil]
    /\ messageHash = <<>>
    /\ signature = [i \in Signers |-> Nil]
    /\ advFn \in {"round5", "round6"}
    /\ advFirst = IF advFn = "round5" THEN AdvRound5Messages ELSE AdvRound6Messages
    /\ advSecond = <<>>
    /\ advFaults = 0
    /\ advOut = Nil
    /\ sessions = NoSessions
    /\ ComponentsIdle

\* The partial decryption a round-5 or round-6 message carries.
PartialDecryptionOf(fn, m) ==
    IF fn = "round5" THEN m.signatureUnmaskPartialDecryption
    ELSE m.signaturePartialDecryption

WithShareId(fn, m, id) ==
    IF fn = "round5"
    THEN [m EXCEPT !.signatureUnmaskPartialDecryption.Id = id]
    ELSE [m EXCEPT !.signaturePartialDecryption.Id = id]

\* A sender passes its partial decryption off as the share of another key
\* share holder.
AdvForgeDecryption ==
    /\ advFn \in {"round5", "round6"}
    /\ Tamper
    /\ \E k \in 1..Len(advFirst), id \in Signers :
          /\ id # PartialDecryptionOf(advFn, advFirst[k]).Id
          /\ advFirst' = [advFirst EXCEPT ![k] = WithShareId(advFn, @, id)]
    /\ UNCHANGED advSecond

AdvCombineRound5Messages ==
    /\ advFn = "round5"
    /\ advOut = Nil
    /\ advOut' = CombineRound5Messages(AdvRound5(1).signer, advFirst)
    /\ UNCHANGED <<mainVars, advFn, advFirst, advSecond, advFaults, componentVars>>

AdvCombineRound6Messages ==
    /\ advFn = "round6"
    /\ advOut = Nil
    /\ advOut' = CombineRound6Messages(AdvRound5(1).signer, advFirst)
    /\ UNCHANGED <<mainVars, advFn, advFirst, advSecond, advFaults, componentVars>>

\* AdvForge on the lists of CombineRound2Messages and CombineRound4Messages.
AdvForgeRound ==
    /\ advFn \in {"round2", "round4"}
    /\ AdvForge

AdvSignInit == AdvRoundInit \/ AdvDecryptInit

AdvSignNext ==
    \/ AdvDrop
    \/ AdvReplay
    \/ AdvSubstitute
    \/ AdvForgeRound
    \/ AdvForgeDecryption
    \/ AdvCombineRound2Messages
    \/ AdvCombineRound4Messages
    \/ AdvCombineRound5Messages
    \/ AdvCombineRound6Messages

\* The four combine steps of a signing session on adversarially delivered
\* lists.
AdvSignSpec == AdvSignInit /\ [][AdvSignNext]_vars

(***************************************************************************)
(* The operations with failing collaborators.  `fails` names the           *)
(* collaborator calls that return an error: rand.Int ("rand"),             *)
(* paillier.GetRandomNumberInMultiplicativeGroup ("randomness"),           *)
(* paillierKey.EncryptWithR ("encrypt"), commitment.Generate ("commit")    *)
(* and the zkp.Commit... proof generation ("proof").                       *)
(***************************************************************************)
Collaborators == {"rand", "randomness", "encrypt", "commit", "proof"}

\* LocalSigner.generateDsaKeyShare
generateDsaKeyShareCall(secretKeyShare, fails) ==
    IF "rand" \in fails
    THEN Error("could not generate DSA key share")
    ELSE Ok(generateDsaKeyShare(secretKeyShare))

\* Mutant: the key share is stored in the LocalSigner before the commitment
\* is generated.
InitializeDsaKeySharesEarlyStore(localSigner, id, secretKeyShare, decommitmentKey, fails) ==
    LET keyShare == generateDsaKeyShareCall(secretKeyShare, fails)
        com == CommitmentGenerate(<<keyShare.value.publicKeyShare>>, decommitmentKey)
    IN IF ~keyShare.ok
       THEN [ls |-> localSigner, result |-> Error("could not generate DSA key shares")]
       ELSE IF "commit" \in fails
       THEN [ls     |-> [localSigner EXCEPT !.dsaKeyShare = keyShare.value],
             result |-> Error("could not generate DSA public key commitment")]
       ELSE [ls     |-> [dsaKeyShare |-> keyShare.value,
                         publicDsaKeyShareDecommitmentKey |-> com.decommitmentKey],
             result |-> Ok(PublicKeyShareCommitmentMessage(id, com.commitment))]

\* LocalSigner.InitializeDsaKeyShares on the LocalSigner fields
\* `localSigner`: the fields after the call and what the call returns.
InitializeDsaKeySharesCall(localSigner, id, secretKeyShare, decommitmentKey, fails) ==
    LET keyShare == generateDsaKeyShareCall(secretKeyShare, fails)
        com == CommitmentGenerate(<<keyShare.value.publicKeyShare>>, decommitmentKey)
    IN IF ~keyShare.ok
       THEN [ls |-> localSigner, result |-> Error("could not generate DSA key shares")]
       ELSE IF "commit" \in fails
       THEN [ls     |-> localSigner,
             result |-> Error("could not generate DSA public key commitment")]
       ELSE [ls     |-> [dsaKeyShare |-> keyShare.value,
                         publicDsaKeyShareDecommitmentKey |-> com.decommitmentKey],
             result |-> Ok(PublicKeyShareCommitmentMessage(id, com.commitment))]

\* LocalSigner.RevealDsaKeyShares.  The error of zkp.CommitDsaPaillierKeyRange
\* is assigned and never read: the message is returned with the proof the
\* failed call returned (nil).
RevealDsaKeySharesCall(localSigner, id, fails) ==
    IF "randomness" \in fails
    THEN Error("could not generate random r for Paillier")
    ELSE IF "encrypt" \in fails
    THEN Error("could not encrypt secret key share")
    ELSE LET encryptedSecretKeyShare ==
                 EncryptWithR(localSigner.dsaKeyShare.secretKeyShare)
             rangeProof ==
                 IF "proof" \in fails THEN Nil
                 ELSE CommitDsaPaillierKeyRange(
                          localSigner.dsaKeyShare.secretKeyShare,
                          localSigner.dsaKeyShare.publicKeyShare,
                          encryptedSecretKeyShare)
         IN Ok(KeyShareRevealMessage(id, encryptedSecretKeyShare,
                                     localSigner.dsaKeyShare.publicKeyShare,
                                     localSigner.publicDsaKeyShareDecommitmentKey,
                                     rangeProof))

\* Signer.SignRound1
SignRound1Call(s, secretKeyFactorShare, decommitmentKey, fails) ==
    IF fails \cap {"rand", "randomness", "encrypt", "commit"} # {}
    THEN Error("could not execute round 1 of signing")
    ELSE Ok(SignRound1(s, secretKeyFactorShare, decommitmentKey))

\* Round1Signer.SignRound2
SignRound2Call(s, fails) ==
    IF "proof" \in fails
    THEN Error("could not execute round 2 of signing")
    ELSE Ok(SignRound2(s))

\* Round2Signer.SignRound3
SignRound3Call(s, secretKeyFactor, secretKeyMultiple, signatureFactorSecretShare, signatureFactorMaskShare, decommitmentKey, fails) ==
    IF fails \cap {"rand", "randomness", "encrypt", "commit"} # {}
    THEN Error("could not execute round 3 of signing")
    ELSE Ok(SignRound3(s, secretKeyFactor, secretKeyMultiple,
                       signatureFactorSecretShare, signatureFactorMaskShare,
                       decommitmentKey))

\* Round3Signer.SignRound4
SignRound4Call(s, fails) ==
    IF "proof" \in fails
    THEN Error("could not execute round 4 of signing")
    ELSE Ok(SignRound4(s))

\* What a call returned, with the call it answers.
Called(fn, fails, result) == result @@ [fn |-> fn, fails |-> fails]

\* The signer whose calls meet failing collaborators.
FaultSigner == 1

\* Byte slices of length 0, 31, 32 and 33 handed to SignRound6.
HashInputs ==
    { [k \in 1..n |-> IF k = n THEN b ELSE 0] :
          n \in {0, HashLength - 1, HashLength, HashLength + 1},
          b \in 0..MaxDigestByte }

\* TDec(w) values handed to SignRound6: the honest one, and two without an
\* inverse modulo the curve order.
UnmaskInputs == {AdvSignatureUnmask, 0, curveCardinality}

FaultStep(from, to, result) ==
    stage' = [stage EXCEPT ![FaultSigner] = IF result.ok THEN to ELSE from]

\* How many commitment messages the signer gets to broadcast.
MaxInitCalls == 2

\* Every message a successful call returns is broadcast.
FaultInitializeDsaKeyShares ==
    /\ stage[FaultSigner] \in {"LocalSigner", "Committed"}
    /\ Len(shareCommitments) < MaxInitCalls
    /\ \E secretKeyShare \in RandomScalars, fails \in SUBSET {"rand", "commit"} :
          LET call == InitializeDsaKeySharesCall(ls[FaultSigner], FaultSigner,
                                                 secretKeyShare, "d1", fails)
          IN /\ ls' = [ls EXCEPT ![FaultSigner] = call.ls]
             /\ ret' = [ret EXCEPT ![FaultSigner] =
                           Called("InitializeDsaKeyShares", fails, call.result)]
             /\ shareCommitments' =
                    IF call.result.ok
                    THEN Append(shareCommitments, call.result.value)
                    ELSE shareCommitments
             /\ FaultStep(stage[FaultSigner], "Committed", call.result)
    /\ UNCHANGED <<signer, revealedShares, present, roundMessages,
                   messageHash, signature, advVars, sessions, componentVars>>

FaultRevealDsaKeyShares ==
    /\ stage[FaultSigner] = "Committed"
    /\ \E fails \in SUBSET {"randomness", "encrypt", "proof"} :
          LET result == RevealDsaKeySharesCall(ls[FaultSigner], FaultSigner, fails)
          IN /\ ret' = [ret EXCEPT ![FaultSigner] =
                           Called("RevealDsaKeyShares", fails, result)]
             /\ revealedShares' =
                    IF result.ok THEN Append(revealedShares, result.value)
                    ELSE revealedShares
             /\ FaultStep("Committed", "Revealed", result)
    /\ UNCHANGED <<ls, signer, shareCommitments, present,
                   roundMessages, messageHash, signature, advVars, sessions, componentVars>>

\* The signer receives the ThresholdDsaKey of its group; the messages of
\* the key generation are no longer referenced.
FaultNewSigner ==
    /\ stage[FaultSigner] = "Revealed"
    /\ signer' = [signer EXCEPT ![FaultSigner] = NewSigner(FaultSigner, AdvDsaKey)]
    /\ stage' = [stage EXCEPT ![FaultSigner] = "Signer"]
    /\ ret' = [ret EXCEPT ![FaultSigner] = Nil]
    /\ shareCommitments' = <<>>
    /\ revealedShares' = <<>>
    /\ UNCHANGED <<ls, present, roundMessages, messageHash, signature, advVars, sessions, componentVars>>

\* A round function meets the failures `fails`; on success the signer holds
\* the state it returned.
FaultRound(fn, from, to, fails, result) ==
    /\ ret' = [ret EXCEPT ![FaultSigner] = Called(fn, fails, result)]
    /\ signer' = [signer EXCEPT ![FaultSigner] =
                     IF result.ok THEN result.value.signer ELSE @]
    /\ FaultStep(from, to, result)
    /\ UNCHANGED <<keygenVars, present, roundMessages, messageHash, signature, advVars, sessions, componentVars>>

FaultSignRound1 ==
    /\ stage[FaultSigner] = "Signer"
    /\ \E secretKeyFactorShare \in RandomScalars,
          fails \in SUBSET {"rand", "randomness", "encrypt", "commit"} :
          FaultRound("SignRound1", "Signer", "Round1Signer", fails,
                     SignRound1Call(signer[FaultSigner], secretKeyFactorShare,
                                    "d1", fails))

FaultSignRound2 ==
    /\ stage[FaultSigner] = "Round1Signer"
    /\ \E fails \in SUBSET {"proof"} :
          FaultRound("SignRound2", "Round1Signer", "Round2Signer", fails,
                     SignRound2Call(signer[FaultSigner], fails))

FaultSignRound3 ==
    /\ stage[FaultSigner] = "Round2Signer"
    /\ \E signatureFactorSecretShare \in RandomScalars,
          fails \in SUBSET {"rand", "randomness", "encrypt", "commit"} :
          FaultRound("SignRound3", "Round2Signer", "Round3Signer", fails,
                     SignRound3Call(signer[FaultSigner],
                                    AdvSecretKeyFactor.secretKeyFactor,
                                    AdvSecretKeyFactor.secretKeyMultiple,
                                    signatureFactorSecretShare, AdvMask, "d1", fails))

FaultSignRound4 ==
    /\ stage[FaultSigner] = "Round3Signer"
    /\ \E fails \in SUBSET {"proof"} :
          FaultRound("SignRound4", "Round3Signer", "Round4Signer", fails,
                     SignRound4Call(signer[FaultSigner], fails))

FaultSignRound5 ==
    /\ stage[FaultSigner] = "Round4Signer"
    /\ FaultRound("SignRound5", "Round4Signer", "Round5Signer", {},
                  Ok(SignRound5(signer[FaultSigner],
                                AdvSignatureFactor.signatureUnmask,
                                AdvSignatureFactor.signatureFactorPublic)))

\* SignRound6 on a byte slice of any length and a TDec(w) with or without
\* inverse.
FaultSignRound6 ==
    /\ stage[FaultSigner] = "Round5Signer"
    /\ \E hash \in HashInputs, signatureUnmask \in UnmaskInputs :
          LET result == SignRound6(signer[FaultSigner], signatureUnmask, hash)
          IN /\ messageHash' = hash
             /\ ret' = [ret EXCEPT ![FaultSigner] =
                           Called("SignRound6", {}, result)
                               @@ [signatureUnmask |-> signatureUnmask]]
             /\ FaultStep("Round5Signer", "Sent6", result)
    /\ UNCHANGED <<keygenVars, signer, present, roundMessages, signature, advVars, sessions, componentVars>>

FaultNext ==
    \/ FaultInitializeDsaKeyShares
    \/ FaultRevealDsaKeyShares
    \/ FaultNewSigner
    \/ FaultSignRound1
    \/ FaultSignRound2
    \/ FaultSignRound3
    \/ FaultSignRound4
    \/ FaultSignRound5
    \/ FaultSignRound6

\* One signer's operations, each meeting any combination of failing
\* collaborators.
FaultSpec == Init /\ [][FaultNext]_vars

(***************************************************************************)
(* Concurrent signing sessions.  Two sessions are started from the same    *)
(* group of Signers and every signer runs the rounds of both, interleaved  *)
(* in any order.  A Round-N signer embeds the Signer by value, so its      *)
(* dsaKey field points to the ThresholdDsaKey of the Signer it was made    *)
(* from: `signer` holds the Signers with their keys, the sessions hold the *)
(* chains of round states.                                                 *)
(***************************************************************************)
SessionIds == {1, 2}

\* The secrets signer i draws in session x (its rho_i and its k_i).
SessionSecret(x, i) ==
    IF x = 1 THEN AdvSecret(i) ELSE OtherSecret(AdvSecret(i))

\* The digest session x signs.
SessionHash(x) == [k \in 1..HashLength |-> IF k = HashLength THEN x ELSE 0]

NewSession ==
    [stage     |-> [i \in Signers |-> "Signer"],
     chain     |-> [i \in Signers |-> <<>>],
     messages  |-> NoMessages,
     ret       |-> [i \in Signers |-> Nil],
     signature |-> [i \in Signers |-> Nil],
     lost      |-> FALSE]

SessionInit ==
    /\ stage = [i \in Signers |-> "Signer"]
    /\ ls = [i \in Signers |-> NewLocalSigner]
    /\ signer = [i \in Signers |-> NewSigner(i, AdvDsaKey)]
    /\ shareCommitments = <<>>
    /\ revealedShares = <<>>
    /\ present = {}
    /\ roundMessages = NoMessages
    /\ ret = [i \in Signers |-> Nil]
    /\ messageHash = <<>>
    /\ signature = [i \in Signers |-> Nil]
    /\ advFn = "none"
    /\ advFirst = <<>>
    /\ advSecond = <<>>
    /\ advFaults = 0
    /\ advOut = Nil
    /\ sessions = [x \in SessionIds |-> NewSession]
    /\ ComponentsIdle

\* Mutant: the method overwrites its receiver with the state it returns.
AfterCallInPlace(s, out) ==
    IF "signer" \in DOMAIN out THEN out.signer ELSE s

\* Mutant: the multiplication of round 1 is done in place on the encrypted
\* secret key of the ThresholdDsaKey.
AfterCallScalingKey(s, out) ==
    IF "signer" \in DOMAIN out /\ "secretKeyMultipleShare" \in DOMAIN out.signer
    THEN [s EXCEPT !.dsaKey = [@ EXCEPT !.secretKey = out.signer.secretKeyMultipleShare]]
    ELSE s

\* The receiver of a round or combine function after a call that returned
\* `out`: the functions build what they return in new structs (the struct
\* literals of SignRound1..SignRound5) and new big.Ints, and assign nothing
\* through the receiver or the pointers it holds.
AfterCall(s, out) == s

\* The state signer i holds in session x: the Signer itself before round 1,
\* then the last state of its chain, whose key is the Signer's.
Current(x, i) ==
    LET c == sessions[x].chain[i]
    IN IF c = <<>> THEN signer[i]
       ELSE [c[Len(c)] EXCEPT !.dsaKey = signer[i].dsaKey]

SessionTurn(x, i, from, to) ==
    /\ sessions[x].stage[i] = from
    /\ \A j \in Signers \ {i} :
           IF j < i THEN sessions[x].stage[j] \in to
           ELSE sessions[x].stage[j] = from

\* Signer i's call in session x has returned: the receiver is as the call
\* left it, a new state (if any) is added to the chain, a message (if any)
\* is broadcast in the session, and the result of a combine step or the
\* signature is kept.
SessionStep(x, i, to, after, new, round, message, result, sig) ==
    LET c == sessions[x].chain[i]
        kept == IF c = <<>> THEN c ELSE [c EXCEPT ![Len(c)] = after]
    IN /\ signer' = [signer EXCEPT ![i] =
                         IF c = <<>> THEN after ELSE [@ EXCEPT !.dsaKey = after.dsaKey]]
       /\ sessions' = [sessions EXCEPT ![x] =
              [@ EXCEPT !.stage[i] = to,
                        !.chain[i] = IF new = Nil THEN kept ELSE Append(kept, new),
                        !.messages[round] = IF message = Nil THEN @ ELSE Append(@, message),
                        !.ret[i] = result,
                        !.signature[i] = IF sig = Nil THEN @ ELSE sig]]
       /\ UNCHANGED <<stage, ls, shareCommitments, revealedShares, present,
                      roundMessages, ret, messageHash, signature, advVars, componentVars>>

SessionSignRound1(x, i) ==
    /\ SessionTurn(x, i, "Signer", {"Round1Signer"})
    /\ LET s == Current(x, i)
           out == SignRound1(s, SessionSecret(x, i), "d1")
       IN SessionStep(x, i, "Round1Signer", AfterCall(s, out), out.signer,
                      1, out.message, sessions[x].ret[i], Nil)

SessionSignRound2(x, i) ==
    /\ SessionTurn(x, i, "Round1Signer", {"Round2Signer"})
    /\ LET s == Current(x, i)
           out == SignRound2(s)
       IN SessionStep(x, i, "Round2Signer", AfterCall(s, out), out.signer,
                      2, out.message, sessions[x].ret[i], Nil)

SessionCombineRound2Messages(x, i) ==
    /\ SessionTurn(x, i, "Round2Signer", {"Combined2", "Failed"})
    /\ LET s == Current(x, i)
           out == CombineRound2Messages(s, sessions[x].messages[1], sessions[x].messages[2])
       IN SessionStep(x, i, IF out.ok THEN "Combined2" ELSE "Failed",
                      AfterCall(s, out), Nil, 2, Nil, out, Nil)

SessionSignRound3(x, i) ==
    /\ SessionTurn(x, i, "Combined2", {"Round3Signer"})
    /\ LET s == Current(x, i)
           combined == sessions[x].ret[i].value
           out == SignRound3(s, combined.secretKeyFactor, combined.secretKeyMultiple,
                             SessionSecret(x, i), AdvMask, "d1")
       IN SessionStep(x, i, "Round3Signer", AfterCall(s, out), out.signer,
                      3, out.message, Nil, Nil)

SessionSignRound4(x, i) ==
    /\ SessionTurn(x, i, "Round3Signer", {"Round4Signer"})
    /\ LET s == Current(x, i)
           out == SignRound4(s)
       IN SessionStep(x, i, "Round4Signer", AfterCall(s, out), out.signer,
                      4, out.message, sessions[x].ret[i], Nil)

SessionCombineRound4Messages(x, i) ==
    /\ SessionTurn(x, i, "Round4Signer", {"Combined4", "Failed"})
    /\ LET s == Current(x, i)
           out == CombineRound4Messages(s, sessions[x].messages[3], sessions[x].messages[4])
       IN SessionStep(x, i, IF out.ok THEN "Combined4" ELSE "Failed",
                      AfterCall(s, out), Nil, 4, Nil, out, Nil)

SessionSignRound5(x, i) ==
    /\ SessionTurn(x, i, "Combined4", {"Round5Signer"})
    /\ LET s == Current(x, i)
           combined == sessions[x].ret[i].value
           out == SignRound5(s, combined.signatureUnmask, combined.signatureFactorPublic)
       IN SessionStep(x, i, "Round5Signer", AfterCall(s, out), out.signer,
                      5, out.message, Nil, Nil)

SessionCombineRound5Messages(x, i) ==
    /\ SessionTurn(x, i, "Round5Signer", {"Combined5", "Failed"})
    /\ LET s == Current(x, i)
           out == CombineRound5Messages(s, sessions[x].messages[5])
       IN SessionStep(x, i, IF out.ok THEN "Combined5" ELSE "Failed",
                      AfterCall(s, out), Nil, 5, Nil, out, Nil)

SessionSignRound6(x, i) ==
    /\ SessionTurn(x, i, "Combined5", {"Sent6", "Panicked"})
    /\ LET s == Current(x, i)
           out == SignRound6(s, sessions[x].ret[i].value, SessionHash(x))
       IN SessionStep(x, i, IF out.ok THEN "Sent6" ELSE "Panicked",
                      AfterCall(s, out), Nil,
                      6, IF out.ok THEN out.value ELSE Nil, sessions[x].ret[i], Nil)

SessionCombineRound6Messages(x, i) ==
    /\ SessionTurn(x, i, "Sent6", {"Done"})
    /\ LET s == Current(x, i)
           out == CombineRound6Messages(s, sessions[x].messages[6])
       IN SessionStep(x, i, "Done", AfterCall(s, out), Nil,
                      6, Nil, sessions[x].ret[i], out)

\* The stage in which every signer of a session waits for the messages of
\* round r to be combined.
AwaitingRound(r) ==
    CASE r \in {1, 2} -> "Round2Signer"
      [] r \in {3, 4} -> "Round4Signer"
      [] r = 5        -> "Round5Signer"
      [] r = 6        -> "Sent6"

\* One message of a session is lost before the signers combine its round.
SessionLoseMessage(x) ==
    /\ ~sessions[x].lost
    /\ \E r \in 1..6 :
          /\ \A i \in Signers : sessions[x].stage[i] = AwaitingRound(r)
          /\ \E k \in 1..Len(sessions[x].messages[r]) :
                sessions' = [sessions EXCEPT ![x].messages[r] = RemoveAt(@, k),
                                             ![x].lost = TRUE]
    /\ UNCHANGED <<stage, ls, signer, shareCommitments, revealedShares, present,
                   roundMessages, ret, messageHash, signature, advVars, componentVars>>

SessionNext ==
    \/ \E x \in SessionIds, i \in Signers : SessionSignRound1(x, i)
    \/ \E x \in SessionIds, i \in Signers : SessionSignRound2(x, i)
    \/ \E x \in SessionIds, i \in Signers : SessionCombineRound2Messages(x, i)
    \/ \E x \in SessionIds, i \in Signers : SessionSignRound3(x, i)
    \/ \E x \in SessionIds, i \in Signers : SessionSignRound4(x, i)
    \/ \E x \in SessionIds, i \in Signers : SessionCombineRound4Messages(x, i)
    \/ \E x \in SessionIds, i \in Signers : SessionSignRound5(x, i)
    \/ \E x \in SessionIds, i \in Signers : SessionCombineRound5Messages(x, i)
    \/ \E x \in SessionIds, i \in Signers : SessionSignRound6(x, i)
    \/ \E x \in SessionIds, i \in Signers : SessionCombineRound6Messages(x, i)
    \/ \E x \in SessionIds : SessionLoseMessage(x)

SessionSpec == SessionInit /\ [][SessionNext]_vars

\* Each session run alone on a group of Signers holding the key: what the
\* round and combine functions return to every signer, step after step.
MessagesOf(outs) == [i \in Signers |-> outs[i].message]

SoloRound1 ==
    [x \in SessionIds |-> [i \in Signers |->
        SignRound1(NewSigner(i, AdvDsaKey), SessionSecret(x, i), "d1")]]

SoloRound2 ==
    [x \in SessionIds |-> [i \in Signers |-> SignRound2(SoloRound1[x][i].signer)]]

SoloCombined2 ==
    [x \in SessionIds |-> [i \in Signers |->
        CombineRound2Messages(SoloRound2[x][i].signer,
                              MessagesOf(SoloRound1[x]), MessagesOf(SoloRound2[x]))]]

SoloRound3 ==
    [x \in SessionIds |-> [i \in Signers |->
        SignRound3(SoloRound2[x][i].signer,
                   SoloCombined2[x][i].value.secretKeyFactor,
                   SoloCombined2[x][i].value.secretKeyMultiple,
                   SessionSecret(x, i), AdvMask, "d1")]]

SoloRound4 ==
    [x \in SessionIds |-> [i \in Signers |-> SignRound4(SoloRound3[x][i].signer)]]

SoloCombined4 ==
    [x \in SessionIds |-> [i \in Signers |->
        CombineRound4Messages(SoloRound4[x][i].signer,
                              MessagesOf(SoloRound3[x]), MessagesOf(SoloRound4[x]))]]

SoloRound5 ==
    [x \in SessionIds |-> [i \in Signers |->
        SignRound5(SoloRound4[x][i].signer,
                   SoloCombined4[x][i].value.signatureUnmask,
                   SoloCombined4[x][i].value.signatureFactorPublic)]]

SoloCombined5 ==
    [x \in SessionIds |-> [i \in Signers |->
        CombineRound5Messages(SoloRound5[x][i].signer, MessagesOf(SoloRound5[x]))]]

SoloRound6 ==
    [x \in SessionIds |-> [i \in Signers |->
        SignRound6(SoloRound5[x][i].signer, SoloCombined5[x][i].value,
                   SessionHash(x)).value]]

SoloSignature ==
    [x \in SessionIds |-> [i \in Signers |->
        CombineRound6Messages(SoloRound5[x][i].signer, SoloRound6[x])]]

Solo(x) ==
    [chain     |-> [i \in Signers |->
                       <<SoloRound1[x][i].signer, SoloRound2[x][i].signer,
                         SoloRound3[x][i].signer, SoloRound4[x][i].signer,
                         SoloRound5[x][i].signer>>],
     messages  |-> <<MessagesOf(SoloRound1[x]), MessagesOf(SoloRound2[x]),
                     MessagesOf(SoloRound3[x]), MessagesOf(SoloRound4[x]),
                     MessagesOf(SoloRound5[x]), SoloRound6[x]>>,
     signature |-> SoloSignature[x]]

(***************************************************************************)
(* Standard ECDSA verification of (r, s) over a 32-byte digest             *)
(***************************************************************************)
EcdsaVerify(publicKey, hash, r, s) ==
    /\ r \in 1..(curveCardinality - 1)
    /\ s \in 1..(curveCardinality - 1)
    /\ LET e  == SetBytes(hash)
           w  == ModInverse(s, curveCardinality)
           u1 == (e * w) % curveCardinality
           u2 == (r * w) % curveCardinality
           P  == CurveAdd(ScalarBaseMult(u1), ScalarMult(publicKey, u2))
       IN P # Infinity /\ P.X % curveCardinality = r

Returned(i) == signature[i] # Nil /\ signature[i].ok

FullSession == present = Signers

SubsetSession == present # {} /\ Cardinality(present) < GroupSize

(***************************************************************************)
(* Claims                                                                  *)
(***************************************************************************)

\* C1: every Signature returned by CombineRound6Messages in a session of
\* all GroupSize honest signers verifies under standard ECDSA verification
\* against the group public key and the signed digest, whatever random
\* values were drawn.
C1_SignatureVerifies ==
    \A i \in Signers :
        (FullSession /\ Returned(i)) =>
            EcdsaVerify(PublicEcdsaKey(signer[i]), messageHash,
                        signature[i].value.R, signature[i].value.S)

SenderIDs(messages) == { messages[k].signerID : k \in 1..Len(messages) }

DuplicateSender(messages) == Cardinality(SenderIDs(messages)) < Len(messages)

NoOutput(result) == ~result.ok /\ "value" \notin DOMAIN result

\* Some commitment message has no reveal message with its signer ID.
DsaUnmatched ==
    \E k \in 1..Len(advFirst) : advFirst[k].signerID \notin SenderIDs(advSecond)

\* Some reveal message matched to a commitment message fails validation.
DsaInvalidMatch ==
    \E k \in 1..Len(advFirst), j \in 1..Len(advSecond) :
        /\ advFirst[k].signerID = advSecond[j].signerID
        /\ ~KeyShareRevealIsValid(advSecond[j], advFirst[k].publicKeyShareCommitment)

\* C2: CombineDsaKeyShares is fail-closed: with a commitment message that
\* has no reveal message of the same signer ID, or a matched reveal message
\* that fails validation, it returns an error and no key; a key is returned
\* only if every commitment message was matched to valid reveal messages.
C2_FailClosed ==
    (advFn = "dsa" /\ advOut # Nil) =>
        /\ (DsaUnmatched \/ DsaInvalidMatch) => NoOutput(advOut)
        /\ advOut.ok =>
               \A k \in 1..Len(advFirst) : \E j \in 1..Len(advSecond) :
                   /\ advFirst[k].signerID = advSecond[j].signerID
                   /\ KeyShareRevealIsValid(advSecond[j],
                                            advFirst[k].publicKeyShareCommitment)

\* A call with lists of the right length, every commitment matched, and a
\* matched reveal that fails validation.
C2_Witness ==
    /\ advFn = "dsa" /\ advOut # Nil
    /\ Len(advFirst) = GroupSize /\ Len(advSecond) = GroupSize
    /\ ~DsaUnmatched /\ DsaInvalidMatch
    /\ NoOutput(advOut)

\* C3: given lists of length GroupSize with a duplicated sender ID among
\* the commitment messages or among the reveal messages, CombineDsaKeyShares
\* fails instead of returning a key.
C3_NoDoubleCount ==
    ( /\ advFn = "dsa" /\ advOut # Nil
      /\ Len(advFirst) = GroupSize /\ Len(advSecond) = GroupSize
      /\ (DuplicateSender(advFirst) \/ DuplicateSender(advSecond)) )
    => ~advOut.ok

\* C4: given a duplicated sender ID among the round-1 (round-3) messages or
\* among the round-2 (round-4) messages, CombineRound2Messages
\* (CombineRound4Messages) returns an error instead of combined values.
C4_NoDoubleCount ==
    ( /\ advFn \in {"round2", "round4"} /\ advOut # Nil
      /\ (DuplicateSender(advFirst) \/ DuplicateSender(advSecond)) )
    => ~advOut.ok

DsaAttendanceErrors ==
    {"commitments required from all group members",
     "all group members should reveal shares"}

\* C5: CombineDsaKeyShares returns an attendance error and no key whenever
\* the number of commitment messages or the number of reveal messages
\* differs from GroupSize, whatever the messages are.
C5_Attendance ==
    ( /\ advFn = "dsa" /\ advOut # Nil
      /\ (Len(advFirst) # GroupSize \/ Len(advSecond) # GroupSize) )
    => /\ NoOutput(advOut)
       /\ advOut.err \in DsaAttendanceErrors

\* A call with GroupSize commitments and more than GroupSize reveals.
C5_Witness ==
    /\ advFn = "dsa" /\ advOut # Nil
    /\ Len(advFirst) = GroupSize /\ Len(advSecond) > GroupSize
    /\ advOut.err = "all group members should reveal shares"

SessionStopped ==
    \A i \in present : stage[i] \in {"Done", "Failed", "Panicked"}

C7_LowS ==
    \A i \in Signers :
        Returned(i) => signature[i].value.S \in 1..(curveCardinality \div 2)

\* The plaintext the round-6 partial decryptions combine to.
Round6Plaintext == roundMessages[6][1].signaturePartialDecryption.Decryption.pt

\* C8: CombineRound6Messages returns S = d mod q when that is at most
\* floor(q / 2) and q - (d mod q) otherwise, d being the combined
\* decryption, and R = the round-5 signature factor hash.
C8_NormalizedS ==
    \A i \in Signers :
        Returned(i) =>
            LET reduced == Round6Plaintext % curveCardinality
            IN /\ signature[i].value.S =
                      IF reduced <= curveCardinality \div 2
                      THEN reduced ELSE curveCardinality - reduced
               /\ signature[i].value.R = signer[i].signatureFactorPublicHash
               /\ signature[i].value.R =
                      signer[i].signatureFactorPublic.X % curveCardinality

\* A Signature whose S was flipped to q - s, and one whose s was exactly
\* floor(q / 2) is told apart by the state below: the reduced plaintext is
\* above the half order.
C8_Witness ==
    \E i \in Signers :
        /\ Returned(i)
        /\ Round6Plaintext % curveCardinality > curveCardinality \div 2
        /\ signature[i].value.S = curveCardinality - (Round6Plaintext % curveCardinality)

RECURSIVE SumOver(_, _)
SumOver(f, S) ==
    IF S = {} THEN 0
    ELSE LET x == CHOOSE y \in S : TRUE IN f[x] + SumOver(f, S \ {x})

\* Threshold decryption by the whole group.
GroupDecrypt(cypher) ==
    CombinePartialDecryptions([j \in Signers |-> PartialDecrypt(j, cypher)]).plaintext

KeygenDone(i) == stage[i] = "Signer" /\ present = {}

SecretKeyShares == [j \in Signers |-> ls[j].dsaKeyShare.secretKeyShare]

\* C9 as stated: decrypting the combined secret key yields the sum of the
\* secret key shares reduced modulo the curve order.
C9_SecretKeyIsSumModOrder ==
    \A i \in Signers :
        KeygenDone(i) =>
            GroupDecrypt(signer[i].dsaKey.secretKey) =
                SumOver(SecretKeyShares, Signers) % curveCardinality

\* C9 amended: decrypting the combined secret key yields the integer sum of
\* the secret key shares, not reduced modulo the curve order (and so
\* congruent to it modulo the curve order).
C9_SecretKeyIsSum ==
    \A i \in Signers :
        KeygenDone(i) =>
            LET decrypted == GroupDecrypt(signer[i].dsaKey.secretKey)
                sum == SumOver(SecretKeyShares, Signers)
            IN /\ decrypted = sum
               /\ decrypted % curveCardinality = sum % curveCardinality

\* Every signer holds the key and the shares add up to more than the order.
C9_Witness ==
    /\ \A i \in Signers : KeygenDone(i)
    /\ SumOver(SecretKeyShares, Signers) > curveCardinality

RevealedPublicKeyShare(id) ==
    (CHOOSE k \in 1..Len(revealedShares) : revealedShares[k].signerID = id)

RECURSIVE CurveSumOver(_)
CurveSumOver(S) ==
    IF S = {} THEN Infinity
    ELSE LET id == CHOOSE y \in S : TRUE
         IN CurveAdd(revealedShares[RevealedPublicKeyShare(id)].publicKeyShare,
                     CurveSumOver(S \ {id}))

\* C10: all signers that combined the same commitment and reveal messages,
\* in whatever order each received them, hold the same public key; it is
\* the curve sum of the GroupSize senders' public key shares, and
\* generator^(sum of the secret key shares).
C10_SamePublicKey ==
    /\ \A i, j \in Signers :
           (signer[i] # Nil /\ signer[j] # Nil) =>
               PublicEcdsaKey(signer[i]) = PublicEcdsaKey(signer[j])
    /\ \A i \in Signers :
           KeygenDone(i) =>
               /\ PublicEcdsaKey(signer[i]) = CurveSumOver(Signers)
               /\ PublicEcdsaKey(signer[i]) =
                      ScalarBaseMult(SumOver(SecretKeyShares, Signers) % curveCardinality)

\* All signers have combined the messages; the shares are not all equal
\* and add up to more than the curve order without cancelling out.
C10_Witness ==
    /\ \A i \in Signers : KeygenDone(i)
    /\ \E i, j \in Signers : SecretKeyShares[i] # SecretKeyShares[j]
    /\ SumOver(SecretKeyShares, Signers) > curveCardinality
    /\ PublicEcdsaKey(signer[1]) # Infinity

\* The counting errors of the signing combine step `fn`.
CountingErrors(fn) ==
    IF fn = "round2"
    THEN {"round 1 messages required from all group members",
          "round 2 messages required from all group members"}
    ELSE IF fn = "round4"
    THEN {"round 3 messages required from all group members",
          "round 4 messages required from all group members"}
    ELSE IF fn = "round5"
    THEN {"round 5 messages required from all group members"}
    ELSE {"round 6 messages required from all group members"}

\* Some list handed to the combine step has a length other than GroupSize.
WrongCount ==
    \/ Len(advFirst) # GroupSize
    \/ advFn \in {"round2", "round4"} /\ Len(advSecond) # GroupSize

\* C11: each signing combine step (CombineRound2Messages,
\* CombineRound4Messages, CombineRound5Messages, CombineRound6Messages)
\* returns a counting error and no output whenever one of its message lists
\* has a length other than GroupSize.
C11_CountingError ==
    (advFn \in {"round2", "round4", "round5", "round6"} /\ advOut # Nil /\ WrongCount)
    => /\ NoOutput(advOut)
       /\ advOut.err \in CountingErrors(advFn)

\* CombineRound6Messages refused a quorum of fewer than GroupSize messages.
C11_Witness ==
    /\ advFn = "round6" /\ advOut # Nil
    /\ Len(advFirst) >= Threshold /\ Len(advFirst) < GroupSize
    /\ advOut.err = "round 6 messages required from all group members"

\* The validation CombineRound2Messages / CombineRound4Messages applies to a
\* reveal-round message matched to the commitment-round message c.
RoundMessageIsValid(m, c) ==
    IF advFn = "round2"
    THEN Round2MessageIsValid(m, c.secretKeyFactorShareCommitment,
                              AdvRound2Signer.dsaKey.secretKey)
    ELSE Round4MessageIsValid(m, c.signatureFactorShareCommitment,
                              AdvRound4Signer.secretKeyFactor)

RoundUnmatched ==
    \E k \in 1..Len(advFirst) : advFirst[k].signerID \notin SenderIDs(advSecond)

RoundInvalidMatch ==
    \E k \in 1..Len(advFirst), j \in 1..Len(advSecond) :
        /\ advFirst[k].signerID = advSecond[j].signerID
        /\ ~RoundMessageIsValid(advSecond[j], advFirst[k])

\* C12: CombineRound2Messages and CombineRound4Messages abort atomically:
\* with a round-1 (round-3) message that has no round-2 (round-4) message of
\* the same signer ID, or a matched round-2 (round-4) message that fails its
\* decommitment or proof check, the call returns an error and no output.
C12_AbortsAtomically ==
    (advFn \in {"round2", "round4"} /\ advOut # Nil)
    => ((RoundUnmatched \/ RoundInvalidMatch) => NoOutput(advOut))

\* CombineRound4Messages got full lists, every round-3 message matched, and
\* one matched round-4 message that fails validation.
C12_Witness ==
    /\ advFn = "round4" /\ advOut # Nil
    /\ Len(advFirst) = GroupSize /\ Len(advSecond) = GroupSize
    /\ ~RoundUnmatched /\ RoundInvalidMatch
    /\ Cardinality({ j \in 1..Len(advSecond) :
                       \E k \in 1..Len(advFirst) :
                           /\ advFirst[k].signerID = advSecond[j].signerID
                           /\ RoundMessageIsValid(advSecond[j], advFirst[k]) }) >= 1
    /\ NoOutput(advOut)

\* Two messages of the list come from the same sender: the signerID of a
\* round-5 message; a round-6 message names no sender beyond the key share
\* Id of its partial decryption.
SameSenderTwice ==
    IF advFn = "round5" THEN DuplicateSender(advFirst)
    ELSE Cardinality({ advFirst[k].signaturePartialDecryption.Id :
                           k \in 1..Len(advFirst) }) < Len(advFirst)

\* C13: CombineRound5Messages and CombineRound6Messages reject a list of
\* GroupSize messages in which two messages come from the same sender.
C13_DistinctSenders ==
    ( /\ advFn \in {"round5", "round6"} /\ advOut # Nil
      /\ Len(advFirst) = GroupSize
      /\ SameSenderTwice )
    => ~advOut.ok

\* What the last call of the signer meeting failures returned, when that
\* call was `fn`.
Answered(fn) ==
    /\ ret[FaultSigner] # Nil
    /\ ret[FaultSigner].fn = fn

HashLengthError == "message hash is required to be exactly 32 bytes"

\* C14: SignRound6 called with a message hash that is not exactly 32 bytes
\* long returns the length error and no round-6 message, before the
\* signature cypher is computed (a TDec(w) without inverse, on which that
\* computation panics, makes no difference); with a 32-byte hash the length
\* check never fails.
C14_HashLength ==
    Answered("SignRound6") =>
        /\ Len(messageHash) # HashLength =>
               /\ NoOutput(ret[FaultSigner])
               /\ ret[FaultSigner].err = HashLengthError
               /\ "panic" \notin DOMAIN ret[FaultSigner]
        /\ Len(messageHash) = HashLength =>
               (ret[FaultSigner].ok \/ ret[FaultSigner].err # HashLengthError)

\* SignRound6 was handed a 33-byte slice together with a TDec(w) that has
\* no inverse modulo the curve order.
C14_Witness ==
    /\ Answered("SignRound6")
    /\ Len(messageHash) = HashLength + 1
    /\ ModInverse(ret[FaultSigner].signatureUnmask, curveCardinality) = -1
    /\ ret[FaultSigner].err = HashLengthError

\* The operations that encrypt or generate a zero-knowledge proof.
ConstructingCalls ==
    {"RevealDsaKeyShares", "SignRound1", "SignRound2", "SignRound3", "SignRound4"}

\* C17: whenever the homomorphic encryption or the proof generation invoked
\* by RevealDsaKeyShares, SignRound1, SignRound2, SignRound3 or SignRound4
\* fails, the operation returns an error and no message.
C17_FailureSurfaced ==
    ( /\ ret[FaultSigner] # Nil
      /\ ret[FaultSigner].fn \in ConstructingCalls
      /\ ret[FaultSigner].fails \cap {"encrypt", "proof"} # {} )
    => NoOutput(ret[FaultSigner])

\* The key share the LocalSigner stores is a scalar of [0, q) with its
\* public point.
StoredKeyShareIsSound ==
    LET keyShare == ls[FaultSigner].dsaKeyShare
    IN keyShare # Nil =>
           /\ keyShare.secretKeyShare \in 0..(curveCardinality - 1)
           /\ keyShare.publicKeyShare = ScalarMult(Generator, keyShare.secretKeyShare)
           /\ IsOnCurve(keyShare.publicKeyShare) \/ keyShare.publicKeyShare = Infinity

\* InitializeDsaKeyShares fails exactly when the randomness source or the
\* commitment generation fails.
InitializeFailsOnlyOnFailure ==
    Answered("InitializeDsaKeyShares") =>
        (ret[FaultSigner].ok <=> ret[FaultSigner].fails = {})

\* A failing InitializeDsaKeyShares leaves the stored key share and
\* decommitment key as they were.
FailedInitializeKeepsFields ==
    ( /\ ret'[FaultSigner] # ret[FaultSigner]
      /\ ret'[FaultSigner] # Nil
      /\ ret'[FaultSigner].fn = "InitializeDsaKeyShares"
      /\ ~ret'[FaultSigner].ok )
    => ls' = ls

\* C20: every key share produced by InitializeDsaKeyShares has its secret
\* in [0, curveOrder) and its public share equal to
\* generator^secretKeyShare; the operation fails only if the randomness
\* source or the commitment generation fails, and a failure leaves the
\* LocalSigner's stored key share and decommitment key unchanged.
C20_KeyShare ==
    /\ [](StoredKeyShareIsSound /\ InitializeFailsOnlyOnFailure)
    /\ [][FailedInitializeKeepsFields]_vars

\* A LocalSigner that holds a key share after a call that failed at the
\* commitment generation.
C20_Witness ==
    /\ Answered("InitializeDsaKeyShares")
    /\ ret[FaultSigner].fails = {"commit"}
    /\ ~ret[FaultSigner].ok
    /\ ls[FaultSigner].dsaKeyShare # Nil
    /\ ls[FaultSigner].dsaKeyShare.secretKeyShare = curveCardinality - 1

\* The round whose state a signer holds: 0 for a Signer, N for a Round-N
\* signer, -1 before key generation has finished.
RoundOf(s) ==
    IF s = Nil THEN -1
    ELSE CASE s.type = "Signer"       -> 0
           [] s.type = "Round1Signer" -> 1
           [] s.type = "Round2Signer" -> 2
           [] s.type = "Round3Signer" -> 3
           [] s.type = "Round4Signer" -> 4
           [] s.type = "Round5Signer" -> 5

\* Signer i's last combine step succeeded.
Combined(i) == ret[i] # Nil /\ ret[i].ok

\* A step in which signer i's state changes takes it from round N to round
\* N+1 and broadcasts its round-(N+1) message; the states of rounds 3 and 5
\* are built from what CombineRound2Messages and CombineRound4Messages
\* returned to i.
AdvancesOneRound(i) ==
    LET from == RoundOf(signer[i])
        to == RoundOf(signer'[i])
    IN signer'[i] # signer[i] =>
           /\ to = from + 1
           /\ to >= 1 =>
                  /\ Len(roundMessages'[to]) = Len(roundMessages[to]) + 1
                  /\ roundMessages'[to][Len(roundMessages'[to])].signerID = i
                  /\ \A r \in (1..6) \ {to} : roundMessages'[r] = roundMessages[r]
           /\ to = 3 =>
                  /\ Combined(i)
                  /\ signer'[i].secretKeyFactor = ret[i].value.secretKeyFactor
                  /\ signer'[i].secretKeyMultiple = ret[i].value.secretKeyMultiple
           /\ to = 5 =>
                  /\ Combined(i)
                  /\ signer'[i].signatureUnmask = ret[i].value.signatureUnmask

\* A message is added to round r only by a signer entering round r; round 6
\* messages come from Round5Signers that combined the round-5 messages.
MessageFromItsRound(r) ==
    Len(roundMessages'[r]) > Len(roundMessages[r]) =>
        IF r = 6
        THEN \E i \in present :
                 /\ RoundOf(signer[i]) = 5
                 /\ ret[i] # Nil /\ ret[i].ok
                 /\ signer'[i] = signer[i]
        ELSE \E i \in present :
                 /\ RoundOf(signer[i]) = r - 1
                 /\ RoundOf(signer'[i]) = r

\* The combine steps run on the state of their round and leave it as it is.
CombineOnItsRound(i) ==
    (ret'[i] # ret[i] /\ ret'[i] # Nil /\ signer[i] # Nil) =>
        /\ signer'[i] = signer[i]
        /\ \/ /\ RoundOf(signer[i]) = 2
              /\ ret'[i] = CombineRound2Messages(signer[i], roundMessages[1], roundMessages[2])
           \/ /\ RoundOf(signer[i]) = 4
              /\ ret'[i] = CombineRound4Messages(signer[i], roundMessages[3], roundMessages[4])
           \/ /\ RoundOf(signer[i]) = 5
              /\ ret'[i] = CombineRound5Messages(signer[i], roundMessages[5])

\* A signature comes from a Round5Signer after a round-6 message was sent.
SignatureAfterAllRounds ==
    \A i \in Signers :
        signature[i] # Nil =>
            /\ RoundOf(signer[i]) = 5
            /\ Len(roundMessages[6]) >= 1

\* C15: signing rounds are ordered per signer: SignRound(N+1) runs on the
\* state SignRoundN produced, so a signer's round-N message precedes its
\* round-(N+1) message, CombineRound2Messages precedes SignRound3,
\* CombineRound4Messages precedes SignRound5, and no round is skipped before
\* CombineRound6Messages outputs a signature.
C15_RoundOrder ==
    /\ []SignatureAfterAllRounds
    /\ [][ /\ \A i \in Signers : AdvancesOneRound(i) /\ CombineOnItsRound(i)
           /\ \A r \in 1..6 : MessageFromItsRound(r) ]_vars

\* A signer went through the five round states and holds a signature.
C15_Witness ==
    \E i \in Signers :
        /\ signature[i] # Nil
        /\ signature[i].ok
        /\ RoundOf(signer[i]) = 5

\* No combine step has refused the messages of the honest signers.
NoneRefused == \A i \in Signers : stage[i] # "Failed"

\* C16: with GroupSize honest participants, no failing collaborator and
\* every message delivered, key generation followed by the six signing
\* rounds ends with every participant holding a ThresholdDsaKey and a
\* Signature, and no combine step rejects an honest message: no such run
\* stops before every participant has both.
C16_Completes ==
    /\ (present = {} \/ FullSession) => NoneRefused
    /\ (FullSession /\ SessionStopped) =>
           \A i \in Signers : signer[i] # Nil /\ Returned(i)

IsPrefix(a, b) == Len(a) <= Len(b) /\ \A k \in 1..Len(a) : a[k] = b[k]

Elements(seq) == { seq[k] : k \in 1..Len(seq) }

\* What session x holds is what it holds when run alone: its states and
\* messages are those of the run alone as far as it got (less the message
\* it lost), and its signatures are those of the run alone, or errors when
\* it lost a message.
SessionAsAlone(x) ==
    LET alone == Solo(x)
        mine == sessions[x]
    IN /\ \A i \in Signers : IsPrefix(mine.chain[i], alone.chain[i])
       /\ \A r \in 1..6 :
              IF mine.lost
              THEN Elements(mine.messages[r]) \subseteq Elements(alone.messages[r])
              ELSE IsPrefix(mine.messages[r], alone.messages[r])
       /\ \A i \in Signers :
              mine.signature[i] # Nil =>
                  IF mine.lost THEN ~mine.signature[i].ok
                  ELSE mine.signature[i] = alone.signature[i]

\* A step of one session, failing or not, leaves the other session and the
\* Signers as they were.
StepIsLocal ==
    \A x, y \in SessionIds :
        (x # y /\ sessions'[x] # sessions[x]) =>
            /\ sessions'[y] = sessions[y]
            /\ signer' = signer

SessionFailed(x) ==
    \E i \in Signers : sessions[x].ret[i] # Nil /\ ~sessions[x].ret[i].ok

SessionSigned(x) ==
    \A i \in Signers :
        /\ sessions[x].signature[i] # Nil
        /\ sessions[x].signature[i].ok
        /\ sessions[x].signature[i] = Solo(x).signature[i]

C21_RevealDecommits ==
    \A k \in 1..Len(shareCommitments), n \in 1..Len(revealedShares) :
        (shareCommitments[k].signerID = FaultSigner /\ advFn = "none" /\ present = {}
             /\ stage[FaultSigner] = "Revealed") =>
            CommitmentVerify(shareCommitments[k].publicKeyShareCommitment,
                             revealedShares[n].publicKeyShareDecommitmentKey,
                             <<revealedShares[n].publicKeyShare>>)

(***************************************************************************)
(* DKG result signing (ResultSigningMember).  Go maps are functions whose  *)
(* domain is the set of keys; signatures and hashes are records.           *)
(***************************************************************************)
\* The longest message list handed to VerifyDKGResultSignatures.
MaxMessages == 3

Members == 1..GroupSize

\* The DKG results a member may prefer.
DKGResults == {1, 2}

\* relayChain.DKGResultHash values: the zero value and the hashes of the
\* DKG results.
ZeroHash == [hash |-> 0]

CalculateDKGResultHash(dkgResult) == [hash |-> dkgResult]

ResultHashes == { CalculateDKGResultHash(r) : r \in DKGResults }

\* ResultSigningMember.sign: "Signed:" followed by the hash.
sign(resultHash) == [signed |-> resultHash]

\* ResultSigningMember.verifySignature: not implemented, returns true.
verifySignature(participantIndex, hash, sig) == TRUE

EmptyMap == [k \in {} |-> Nil]

MapPut(map, key, value) ==
    [k \in DOMAIN map \cup {key} |-> IF k = key THEN value ELSE map[k]]

MapDelete(map, key) == [k \in DOMAIN map \ {key} |-> map[k]]

\* accusations[key] = append(accusations[key], sig)
AppendAccusation(accusations, key, sig) ==
    MapPut(accusations, key,
           IF key \in DOMAIN accusations THEN Append(accusations[key], sig)
           ELSE <<sig>>)

Contains(seq, x) == \E k \in 1..Len(seq) : seq[k] = x

\* Mutant: the signature stored for the accused member is left in place.
AccuseSenderKeepingEntry(st, message) ==
    LET withStored ==
            IF message.senderIndex \in DOMAIN st.received
            THEN [st EXCEPT !.accusations =
                      AppendAccusation(@, message.senderIndex,
                                       st.received[message.senderIndex])]
            ELSE st
    IN [withStored EXCEPT !.accusations =
            AppendAccusation(@, message.senderIndex, message.signature)]

\* The branch of VerifyDKGResultSignatures for a sender who already sent a
\* message: the signature stored for it, if any, moves to the accusations,
\* and the signature of this message is added to them.
AccuseSender(st, message) ==
    LET withStored ==
            IF message.senderIndex \in DOMAIN st.received
            THEN [received    |-> MapDelete(st.received, message.senderIndex),
                  accusations |-> AppendAccusation(st.accusations, message.senderIndex,
                                                   st.received[message.senderIndex])]
            ELSE st
    IN [withStored EXCEPT !.accusations =
            AppendAccusation(@, message.senderIndex, message.signature)]

\* The end of the loop body of VerifyDKGResultSignatures, for the first
\* message of a sender.
StoreSignature(member, st, message) ==
    IF message.resultHash # member.preferredDKGResultHash
    THEN st
    ELSE IF ~verifySignature(message.senderIndex, message.resultHash, message.signature)
    THEN st
    ELSE [st EXCEPT !.received = MapPut(@, message.senderIndex, message.signature)]

\* The loop of VerifyDKGResultSignatures from message k on.
RECURSIVE VerifyFrom(_, _, _, _, _)
VerifyFrom(member, messages, k, alreadyReceivedSignature, st) ==
    IF k > Len(messages) THEN st
    ELSE LET message == messages[k]
         IN IF message.senderIndex = member.index
            THEN VerifyFrom(member, messages, k + 1, alreadyReceivedSignature, st)
            ELSE IF Contains(alreadyReceivedSignature, message.senderIndex)
            THEN VerifyFrom(member, messages, k + 1, alreadyReceivedSignature,
                            AccuseSender(st, message))
            ELSE VerifyFrom(member, messages, k + 1,
                            Append(alreadyReceivedSignature, message.senderIndex),
                            StoreSignature(member, st, message))

\* ResultSigningMember.VerifyDKGResultSignatures: the member after the call
\* and the accusations returned.
VerifyDKGResultSignatures(member, messages) ==
    LET st == VerifyFrom(member, messages, 1, <<>>,
                         [received    |-> member.receivedValidResultSignatures,
                          accusations |-> EmptyMap])
    IN [fm          |-> [member EXCEPT !.receivedValidResultSignatures = st.received],
        accusations |-> st.accusations]

NewResultSigningMember(index) ==
    [index                         |-> index,
     preferredDKGResultHash        |-> ZeroHash,
     receivedValidResultSignatures |-> EmptyMap]

\* The messages members can deliver: any sender, a result hash, and a
\* signature over that hash or over another one.
HashSignatureMessages ==
    [senderIndex : Members, resultHash : ResultHashes,
     signature : { sign(h) : h \in ResultHashes }]

MessageLists ==
    UNION { [1..n -> HashSignatureMessages] : n \in 0..MaxMessages }

signingVars == <<mainVars, advVars>>

ResultSigningInit ==
    /\ stage = [i \in Signers |-> "LocalSigner"]
    /\ ls = [i \in Signers |-> NewLocalSigner]
    /\ signer = [i \in Signers |-> Nil]
    /\ shareCommitments = <<>>
    /\ revealedShares = <<>>
    /\ present = {}
    /\ roundMessages = NoMessages
    /\ ret = [i \in Signers |-> Nil]
    /\ messageHash = <<>>
    /\ signature = [i \in Signers |-> Nil]
    /\ advFn = "none"
    /\ advFirst = <<>>
    /\ advSecond = <<>>
    /\ advFaults = 0
    /\ advOut = Nil
    /\ sessions = NoSessions
    /\ fm \in { NewResultSigningMember(index) : index \in Members }
    /\ verifyCall = Nil
    /\ localChain = Nil
    /\ calc = Nil

\* ResultSigningMember.SignDKGResult: the hash of the result becomes the
\* preferred one and the member's own signature is registered.
SignDKGResult ==
    /\ fm # Nil
    /\ verifyCall = Nil
    /\ \E dkgResult \in DKGResults :
          LET resultHash == CalculateDKGResultHash(dkgResult)
          IN fm' = [fm EXCEPT !.preferredDKGResultHash = resultHash,
                              !.receivedValidResultSignatures =
                                  MapPut(@, fm.index, sign(resultHash))]
    /\ UNCHANGED <<signingVars, verifyCall, localChain, calc>>

DoVerifyDKGResultSignatures ==
    /\ fm # Nil
    /\ verifyCall = Nil
    /\ \E messages \in MessageLists :
          LET call == VerifyDKGResultSignatures(fm, messages)
          IN /\ fm' = call.fm
             /\ verifyCall' = [before      |-> fm,
                               messages    |-> messages,
                               accusations |-> call.accusations]
    /\ UNCHANGED <<signingVars, localChain, calc>>

\* The caller is done with the accusations.
DropAccusations ==
    /\ verifyCall # Nil
    /\ verifyCall' = Nil
    /\ UNCHANGED <<signingVars, fm, localChain, calc>>

ResultSigningNext ==
    \/ SignDKGResult
    \/ DoVerifyDKGResultSignatures
    \/ DropAccusations

ResultSigningSpec == ResultSigningInit /\ [][ResultSigningNext]_vars

\* The members other than the verifying one for which the call stored a
\* signature.
StoredByCall ==
    { j \in DOMAIN fm.receivedValidResultSignatures \ {fm.index} :
          \/ j \notin DOMAIN verifyCall.before.receivedValidResultSignatures
          \/ verifyCall.before.receivedValidResultSignatures[j]
                 # fm.receivedValidResultSignatures[j] }

\* The positions of member j's messages in the input list.
MessagesFrom(j) ==
    { k \in 1..Len(verifyCall.messages) : verifyCall.messages[k].senderIndex = j }

\* A signature is valid for a hash when it is what signing that hash gives.
IsSignatureOver(sig, resultHash) == sig = sign(resultHash)

\* C22: every signature VerifyDKGResultSignatures stored for another member
\* was delivered in a message for the preferred DKG result hash whose
\* signature is valid; signatures of messages for another hash or with an
\* invalid signature are not stored.
C22_OnlyValidSupport ==
    verifyCall # Nil =>
        \A j \in StoredByCall :
            \E k \in MessagesFrom(j) :
                LET message == verifyCall.messages[k]
                IN /\ message.signature = fm.receivedValidResultSignatures[j]
                   /\ message.resultHash = fm.preferredDKGResultHash
                   /\ IsSignatureOver(message.signature, message.resultHash)

\* C23: a member index is a key of the accusations returned by
\* VerifyDKGResultSignatures if and only if that member is not the verifying
\* member and sent at least two messages of the input list; after the call
\* no accused member has an entry in receivedValidResultSignatures.
C23_Accused ==
    verifyCall # Nil =>
        /\ \A j \in Members :
               j \in DOMAIN verifyCall.accusations <=>
                   (j # fm.index /\ Cardinality(MessagesFrom(j)) >= 2)
        /\ DOMAIN verifyCall.accusations \subseteq Members
        /\ \A j \in DOMAIN verifyCall.accusations :
               j \notin DOMAIN fm.receivedValidResultSignatures

\* A member whose signature was stored by an earlier call is accused, and a
\* message of the verifying member itself is in the list too.
C23_Witness ==
    /\ verifyCall # Nil
    /\ Cardinality(MessagesFrom(fm.index)) >= 1
    /\ \E j \in DOMAIN verifyCall.accusations :
          j \in DOMAIN verifyCall.before.receivedValidResultSignatures

\* C24: for each member who delivered multiple signatures, the accusations
\* returned by VerifyDKGResultSignatures hold every signature carried by
\* that member's messages in the input list, the first one included.
C24_AllSignaturesAccused ==
    verifyCall # Nil =>
        \A j \in DOMAIN verifyCall.accusations :
            \A k \in MessagesFrom(j) :
                Contains(verifyCall.accusations[j], verifyCall.messages[k].signature)

\* ---------------------------------------------------------------------------
\* The local chain (package local): an in-memory stand-in for the blockchain.
\* Its tests construct it with Connect(groupSize, threshold, minimumStake).
\* ---------------------------------------------------------------------------

MaxTickets == 3

LocalGroupSize == 2

TicketValues == 1..3

StakerValues == {100, 200}

\* relaychain.Ticket: the value tickets are ordered by and the staker value
\* of the proof.
Tickets == [Value : TicketValues, StakerValue : StakerValues]

\* The signing variables stay in their initial state while a component
\* outside of the signing protocol runs.
SigningIdle ==
    /\ stage = [i \in Signers |-> "LocalSigner"]
    /\ ls = [i \in Signers |-> NewLocalSigner]
    /\ signer = [i \in Signers |-> Nil]
    /\ shareCommitments = <<>>
    /\ revealedShares = <<>>
    /\ present = {}
    /\ roundMessages = NoMessages
    /\ ret = [i \in Signers |-> Nil]
    /\ messageHash = <<>>
    /\ signature = [i \in Signers |-> Nil]
    /\ advFn = "none"
    /\ advFirst = <<>>
    /\ advSecond = <<>>
    /\ advFaults = 0
    /\ advOut = Nil
    /\ sessions = NoSessions

\* Connect: a chain with no tickets, no groups, no handlers, at block 0.
\* submitted, emitted, running and received record what was asked of the
\* chain and what its handlers saw; the chain itself does not read them.
Connect(groupSize) ==
    [groupSize                |-> groupSize,
     tickets                  |-> <<>>,
     groups                   |-> <<>>,
     simulatedHeight          |-> 0,
     relayEntryHandlers       |-> {},
     groupRegisteredHandlers  |-> {},
     resultSubmissionHandlers |-> {},
     submitted                |-> <<>>,
     emitted                  |-> <<>>,
     subscribed               |-> <<>>,
     running                  |-> {},
     received                 |-> {}]

\* sort.SliceStable on one more element: the new ticket goes behind every
\* ticket whose value is not greater than its own.
InsertStable(sorted, ticket) ==
    LET before == Cardinality({ k \in 1..Len(sorted) : sorted[k].Value <= ticket.Value })
    IN SubSeq(sorted, 1, before) \o <<ticket>> \o SubSeq(sorted, before + 1, Len(sorted))

RECURSIVE SortSliceStable(_)
\* sort.SliceStable by ticket value: tickets of equal value keep their order.
SortSliceStable(tickets) ==
    IF tickets = <<>> THEN <<>>
    ELSE InsertStable(SortSliceStable(SubSeq(tickets, 1, Len(tickets) - 1)),
                      tickets[Len(tickets)])

\* localChain.SubmitTicket: the ticket is appended and the list sorted.
SubmitTicketTo(chain, ticket) ==
    [chain EXCEPT !.tickets = SortSliceStable(Append(@, ticket)),
                  !.submitted = Append(@, ticket)]

\* GetSelectedParticipants without the cut at the group size.
GetSelectedParticipantsUncut(chain) ==
    [k \in 1..Len(chain.tickets) |-> chain.tickets[k].StakerValue]

\* localChain.GetSelectedParticipants: the staker values of the first
\* groupSize tickets of the list, or of all of them when there are fewer.
GetSelectedParticipants(chain) ==
    LET selectedTickets ==
            IF Len(chain.tickets) <= chain.groupSize THEN chain.tickets
            ELSE SubSeq(chain.tickets, 1, chain.groupSize)
    IN [k \in 1..Len(selectedTickets) |-> selectedTickets[k].StakerValue]

RECURSIVE SubmitAll(_, _)
\* A fresh chain after a list of SubmitTicket calls.
SubmitAll(groupSize, tickets) ==
    IF tickets = <<>> THEN Connect(groupSize)
    ELSE SubmitTicketTo(SubmitAll(groupSize, SubSeq(tickets, 1, Len(tickets) - 1)),
                        tickets[Len(tickets)])

TicketInit ==
    /\ SigningIdle
    /\ fm = Nil
    /\ verifyCall = Nil
    /\ calc = Nil
    /\ localChain = Connect(LocalGroupSize)

SubmitTicket ==
    /\ localChain # Nil
    /\ Len(localChain.submitted) < MaxTickets
    /\ \E ticket \in Tickets : localChain' = SubmitTicketTo(localChain, ticket)
    /\ UNCHANGED <<signingVars, fm, verifyCall, calc>>

TicketNext ==
    \/ SubmitTicket

TicketSpec == TicketInit /\ [][TicketNext]_vars

\* The number of tickets GetSelectedParticipants is to return.
SelectedCount(chain) ==
    IF Len(chain.submitted) < chain.groupSize THEN Len(chain.submitted) ELSE chain.groupSize

\* The result names, in ascending order of value, SelectedCount tickets that
\* were submitted, and no ticket left out has a lower value than one named.
SelectsLowest(chain) ==
    LET result == GetSelectedParticipants(chain)
        n == Len(chain.submitted)
    IN /\ Len(result) = SelectedCount(chain)
       /\ \E pick \in [1..Len(result) -> 1..n] :
             /\ \A a, b \in 1..Len(result) : pick[a] = pick[b] => a = b
             /\ \A a \in 1..Len(result) : result[a] = chain.submitted[pick[a]].StakerValue
             /\ \A a, b \in 1..Len(result) :
                    a < b => chain.submitted[pick[a]].Value <= chain.submitted[pick[b]].Value
             /\ \A a \in 1..Len(result), k \in 1..n :
                    (\A b \in 1..Len(result) : pick[b] # k)
                        => chain.submitted[pick[a]].Value <= chain.submitted[k].Value

\* Any other order of the same SubmitTicket calls gives the same result.
OrderIndependent(chain) ==
    \A f \in Orders(Len(chain.submitted)) :
        GetSelectedParticipants(SubmitAll(chain.groupSize, Permute(chain.submitted, f)))
            = GetSelectedParticipants(chain)

\* No two submitted tickets have the same value and different stakers.
NoTiedTickets(chain) ==
    \A a, b \in 1..Len(chain.submitted) :
        chain.submitted[a].Value = chain.submitted[b].Value
            => chain.submitted[a].StakerValue = chain.submitted[b].StakerValue

MaxHandlers == 2

MaxSubmissions == 2

MaxHeight == 3

groupActiveTime == 1

relayRequestTimeout == 1

GroupPublicKeys == {11, 12}

MemberIndexes == 1..2

EntryValues == {19}

\* The number of SubmitRelayEntry and SubmitDKGResult calls so far.
Submissions(chain) ==
    Cardinality({ e \in 1..Len(chain.emitted) : chain.emitted[e].type # "GroupRegistration" })

\* A handler is started in a goroutine of its own for the event emitted last.
Start(chain, handlers) ==
    [chain EXCEPT !.running = @ \cup { [handler |-> h, event |-> Len(chain.emitted)] : h \in handlers }]

Emit(chain, ev) == [chain EXCEPT !.emitted = Append(@, ev)]

\* The three registrations: the handler is stored under a new identifier.
\* subscribed keeps, per handler, its kind and the events emitted before it
\* was registered and before it was removed.
Register(chain, kind) ==
    [chain EXCEPT !.subscribed = Append(@, [kind |-> kind, live |-> TRUE, from |-> Len(chain.emitted), until |-> Len(chain.emitted)])]

OnSignatureSubmittedOn(chain) ==
    [Register(chain, "Entry") EXCEPT !.relayEntryHandlers = @ \cup {Len(chain.subscribed) + 1}]

OnGroupRegisteredOn(chain) ==
    [Register(chain, "GroupRegistration") EXCEPT !.groupRegisteredHandlers = @ \cup {Len(chain.subscribed) + 1}]

OnDKGResultSubmittedOn(chain) ==
    [Register(chain, "DKGResultSubmission") EXCEPT !.resultSubmissionHandlers = @ \cup {Len(chain.subscribed) + 1}]

\* Unsubscribe that leaves the handler registered.
UnsubscribeKeeping(chain, h) ==
    [chain EXCEPT !.subscribed[h].live = FALSE,
                  !.subscribed[h].until = Len(chain.emitted)]

\* subscription.Unsubscribe: the handler is deleted from its map.
Unsubscribe(chain, h) ==
    [chain EXCEPT !.relayEntryHandlers = @ \ {h},
                  !.groupRegisteredHandlers = @ \ {h},
                  !.resultSubmissionHandlers = @ \ {h},
                  !.subscribed[h].live = FALSE,
                  !.subscribed[h].until = Len(chain.emitted)]

\* localChain.SubmitRelayEntry: every relay entry handler is started with
\* the entry.
SubmitRelayEntryOn(chain, value) ==
    LET entered == Emit(chain, [type |-> "Entry", Value |-> value])
    IN Start(entered, chain.relayEntryHandlers)

\* SubmitDKGResult that notifies the handlers and registers no group.
SubmitDKGResultUnregistered(chain, memberIndex, groupPublicKey) ==
    LET registered == Emit(chain, [type |-> "GroupRegistration", GroupPublicKey |-> groupPublicKey])
        notified == Start(registered, chain.groupRegisteredHandlers)
        published == Emit(notified, [type           |-> "DKGResultSubmission",
                                     MemberIndex    |-> memberIndex,
                                     GroupPublicKey |-> groupPublicKey])
    IN Start(published, chain.resultSubmissionHandlers)

\* localChain.SubmitDKGResult: the group is registered at the current block,
\* the group registration handlers are started with the group's public key
\* and the result submission handlers with the member index and the key.
SubmitDKGResultOn(chain, memberIndex, groupPublicKey) ==
    LET myGroup == [groupPublicKey          |-> groupPublicKey,
                    registrationBlockHeight |-> chain.simulatedHeight]
        grouped == [chain EXCEPT !.groups = Append(@, myGroup)]
        registered == Emit(grouped, [type |-> "GroupRegistration", GroupPublicKey |-> groupPublicKey])
        notified == Start(registered, chain.groupRegisteredHandlers)
        published == Emit(notified, [type           |-> "DKGResultSubmission",
                                     MemberIndex    |-> memberIndex,
                                     GroupPublicKey |-> groupPublicKey])
    IN Start(published, chain.resultSubmissionHandlers)

\* localChain.IsGroupRegistered
IsGroupRegistered(chain, groupPublicKey) ==
    \E k \in 1..Len(chain.groups) : chain.groups[k].groupPublicKey = groupPublicKey

\* IsStaleGroup that counts the last block of the timeout as stale.
IsStaleGroupEarly(chain, groupPublicKey) ==
    LET found == { k \in 1..Len(chain.groups) : chain.groups[k].groupPublicKey = groupPublicKey }
    IN IF found = {} THEN TRUE
       ELSE LET first == CHOOSE k \in found : \A j \in found : k <= j
            IN chain.groups[first].registrationBlockHeight + groupActiveTime + relayRequestTimeout
                   <= chain.simulatedHeight

\* localChain.IsStaleGroup: the first group with the key decides; a key
\* with no group is stale.
IsStaleGroup(chain, groupPublicKey) ==
    LET found == { k \in 1..Len(chain.groups) : chain.groups[k].groupPublicKey = groupPublicKey }
    IN IF found = {} THEN TRUE
       ELSE LET first == CHOOSE k \in found : \A j \in found : k <= j
            IN chain.groups[first].registrationBlockHeight + groupActiveTime + relayRequestTimeout
                   < chain.simulatedHeight

LocalChainInit ==
    /\ SigningIdle
    /\ fm = Nil
    /\ verifyCall = Nil
    /\ calc = Nil
    /\ localChain = Connect(LocalGroupSize)

OnSignatureSubmitted ==
    /\ localChain # Nil
    /\ Len(localChain.subscribed) < MaxHandlers
    /\ localChain' = OnSignatureSubmittedOn(localChain)
    /\ UNCHANGED <<signingVars, fm, verifyCall, calc>>

OnGroupRegistered ==
    /\ localChain # Nil
    /\ Len(localChain.subscribed) < MaxHandlers
    /\ localChain' = OnGroupRegisteredOn(localChain)
    /\ UNCHANGED <<signingVars, fm, verifyCall, calc>>

OnDKGResultSubmitted ==
    /\ localChain # Nil
    /\ Len(localChain.subscribed) < MaxHandlers
    /\ localChain' = OnDKGResultSubmittedOn(localChain)
    /\ UNCHANGED <<signingVars, fm, verifyCall, calc>>

DoUnsubscribe ==
    /\ localChain # Nil
    /\ \E h \in 1..Len(localChain.subscribed) :
          /\ localChain.subscribed[h].live
          /\ localChain' = Unsubscribe(localChain, h)
    /\ UNCHANGED <<signingVars, fm, verifyCall, calc>>

SubmitRelayEntry ==
    /\ localChain # Nil
    /\ Submissions(localChain) < MaxSubmissions
    /\ \E value \in EntryValues : localChain' = SubmitRelayEntryOn(localChain, value)
    /\ UNCHANGED <<signingVars, fm, verifyCall, calc>>

SubmitDKGResult ==
    /\ localChain # Nil
    /\ Submissions(localChain) < MaxSubmissions
    /\ \E memberIndex \in MemberIndexes, groupPublicKey \in GroupPublicKeys :
          localChain' = SubmitDKGResultOn(localChain, memberIndex, groupPublicKey)
    /\ UNCHANGED <<signingVars, fm, verifyCall, calc>>

\* A started goroutine runs: the handler is invoked with its event.
RunHandler ==
    /\ localChain # Nil
    /\ \E call \in localChain.running :
          localChain' = [localChain EXCEPT !.running = @ \ {call},
                                           !.received = @ \cup {call}]
    /\ UNCHANGED <<signingVars, fm, verifyCall, calc>>

\* The simulated block height grows.
NextBlock ==
    /\ localChain # Nil
    /\ localChain.simulatedHeight < MaxHeight
    /\ localChain' = [localChain EXCEPT !.simulatedHeight = @ + 1]
    /\ UNCHANGED <<signingVars, fm, verifyCall, calc>>

LocalChainNext ==
    \/ OnSignatureSubmitted
    \/ OnGroupRegistered
    \/ OnDKGResultSubmitted
    \/ DoUnsubscribe
    \/ SubmitRelayEntry
    \/ SubmitDKGResult
    \/ RunHandler
    \/ NextBlock

LocalChainSpec == LocalChainInit /\ [][LocalChainNext]_vars

\* The events of a handler's kind emitted while it was subscribed.
DueTo(chain, h) ==
    { e \in 1..Len(chain.emitted) :
        /\ chain.emitted[e].type = chain.subscribed[h].kind
        /\ e > chain.subscribed[h].from
        /\ chain.subscribed[h].live \/ e <= chain.subscribed[h].until }

\* The events a handler's goroutines were started with, and those among
\* them it was invoked with already.
StartedFor(chain, h) ==
    { call.event : call \in { c \in chain.running \cup chain.received : c.handler = h } }

ReceivedBy(chain, h) ==
    { call.event : call \in { c \in chain.received : c.handler = h } }

\* C26: a handler registered with OnSignatureSubmitted, OnGroupRegistered or
\* OnDKGResultSubmitted is started with every event of its kind emitted
\* while it is subscribed, which it has received once its goroutines have
\* run, and is never started with nor receives an event submitted after
\* Unsubscribe returned.
C26_Subscriptions ==
    localChain # Nil =>
        \A h \in 1..Len(localChain.subscribed) :
            /\ StartedFor(localChain, h) = DueTo(localChain, h)
            /\ ReceivedBy(localChain, h) \subseteq DueTo(localChain, h)
            /\ localChain.running = {} => ReceivedBy(localChain, h) = DueTo(localChain, h)

\* A handler that received an event, was unsubscribed, and did not receive
\* a later event of its kind that a handler still subscribed received.
C26_Witness ==
    /\ localChain # Nil
    /\ localChain.running = {}
    /\ \E h, other \in 1..Len(localChain.subscribed) :
          /\ ~localChain.subscribed[h].live
          /\ localChain.subscribed[other].live
          /\ ReceivedBy(localChain, h) # {}
          /\ \E e \in ReceivedBy(localChain, other) :
                /\ e > localChain.subscribed[h].until
                /\ localChain.emitted[e].type = localChain.subscribed[h].kind

\* What a SubmitDKGResult call leaves: the group registered, a
\* GroupRegistration with the key started for every group registration
\* handler, a DKGResultSubmission with the member index and the key started
\* for every result submission handler.
DKGResultPublished(before, after, memberIndex, groupPublicKey) ==
    LET new == (Len(before.emitted) + 1)..Len(after.emitted)
    IN /\ IsGroupRegistered(after, groupPublicKey)
       /\ \A h \in before.groupRegisteredHandlers :
             \E e \in new :
                 /\ after.emitted[e] = [type |-> "GroupRegistration", GroupPublicKey |-> groupPublicKey]
                 /\ [handler |-> h, event |-> e] \in after.running
       /\ \A h \in before.resultSubmissionHandlers :
             \E e \in new :
                 /\ after.emitted[e] = [type           |-> "DKGResultSubmission",
                                        MemberIndex    |-> memberIndex,
                                        GroupPublicKey |-> groupPublicKey]
                 /\ [handler |-> h, event |-> e] \in after.running

\* C27: after SubmitDKGResult(memberIndex, result, signatures) the group of
\* result.GroupPublicKey is registered, and subscribers are notified with a
\* GroupRegistration carrying the key and a DKGResultSubmission carrying the
\* member index and the key.
C27_ResultSubmission ==
    [][\A memberIndex \in MemberIndexes, groupPublicKey \in GroupPublicKeys :
           localChain' = SubmitDKGResultOn(localChain, memberIndex, groupPublicKey)
               => DKGResultPublished(localChain, localChain', memberIndex, groupPublicKey)]_vars

\* Both kinds of subscribers have received the events of one submission.
C27_Witness ==
    /\ localChain # Nil
    /\ \E a, b \in localChain.received :
          /\ localChain.emitted[a.event].type = "GroupRegistration"
          /\ localChain.emitted[b.event].type = "DKGResultSubmission"
          /\ b.event = a.event + 1
          /\ localChain.emitted[b.event].MemberIndex = 2
          /\ IsGroupRegistered(localChain, localChain.emitted[a.event].GroupPublicKey)

\* The blocks at which the groups registered with a key stop being active.
Expirations(chain, groupPublicKey) ==
    { chain.groups[k].registrationBlockHeight + groupActiveTime + relayRequestTimeout :
        k \in { j \in 1..Len(chain.groups) : chain.groups[j].groupPublicKey = groupPublicKey } }

MaxEntry == 13

MaxGroups == 12

\* big.Int.Rem: the remainder of the truncated division, of the sign of a.
Rem(a, m) == IF a >= 0 THEN a % m ELSE 0 - ((0 - a) % m)

\* selectGroup with the truncated remainder in the place of the modulus.
selectGroupByRem(previousEntry, numberOfGroups) ==
    IF numberOfGroups = 0 THEN 0 ELSE Rem(previousEntry, numberOfGroups)

\* selectGroup: no group can be selected when there is none; otherwise the
\* previous entry modulo the number of groups (big.Int.Mod, the Euclidean
\* modulus).
selectGroup(previousEntry, numberOfGroups) ==
    IF numberOfGroups = 0 THEN 0 ELSE Mod(previousEntry, numberOfGroups)

\* The significand of a JavaScript number, 53 bits in IEEE-754 binary64,
\* scaled down as the curve is: integers up to 2^SignificandBits are exact.
SignificandBits == 8

MaxV == 300

RECURSIVE Pow2(_)
Pow2(n) == IF n = 0 THEN 1 ELSE 2 * Pow2(n - 1)

MaxSafeInteger == Pow2(SignificandBits)

RECURSIVE UnitOf(_, _)
\* The distance between the numbers next to x, at least unit.
UnitOf(x, unit) == IF x < unit * MaxSafeInteger THEN unit ELSE UnitOf(x, 2 * unit)

\* The number nearest to a non-negative integer, ties to the even
\* significand.
RoundToNumber(x) ==
    LET unit == UnitOf(x, 1)
        q == x \div unit
        r == x % unit
    IN IF 2 * r < unit THEN q * unit
       ELSE IF 2 * r > unit THEN (q + 1) * unit
       ELSE IF q % 2 = 0 THEN q * unit ELSE (q + 1) * unit

\* The number nearest to an integer.
ToNumber(x) == IF x >= 0 THEN RoundToNumber(x) ELSE 0 - RoundToNumber(0 - x)

\* A JavaScript number: NaN or, here, an integer.
NaN == [nan |-> TRUE, value |-> 0]

Number(x) == [nan |-> FALSE, value |-> x]

\* Buffer.toString("hex"): two hexadecimal digits per byte, high one first.
ToHexString(buffer) ==
    [k \in 1..(2 * Len(buffer)) |->
        IF k % 2 = 1 THEN buffer[(k + 1) \div 2] \div 16 ELSE buffer[k \div 2] % 16]

RECURSIVE ParseDigits(_)
\* The integer a string of hexadecimal digits writes.
ParseDigits(digits) ==
    IF digits = <<>> THEN 0
    ELSE 16 * ParseDigits(SubSeq(digits, 1, Len(digits) - 1)) + digits[Len(digits)]

\* parseInt(string, 16): NaN for a string with no digit, otherwise the
\* number nearest to the integer written.
parseInt16(digits) == IF digits = <<>> THEN NaN ELSE Number(ToNumber(ParseDigits(digits)))

\* getChainIdFromV without the clamp at zero.
getChainIdFromVUnclamped(vInHex) ==
    LET vIntValue == parseInt16(ToHexString(vInHex))
    IN IF vIntValue.nan THEN NaN ELSE Number(ToNumber(vIntValue.value - 35) \div 2)

\* getChainIdFromV: the v parameter is parsed from its hexadecimal form,
\* (v - 35) / 2 is rounded down, and a negative chain id is reported as 0.
\* NaN is neither subtracted from nor less than 0: it is returned as it is.
getChainIdFromV(vInHex) ==
    LET vIntValue == parseInt16(ToHexString(vInHex))
        chainId == IF vIntValue.nan THEN NaN ELSE Number(ToNumber(vIntValue.value - 35) \div 2)
    IN IF ~chainId.nan /\ chainId.value < 0 THEN Number(0) ELSE chainId

RECURSIVE ToBuffer(_)
\* The big-endian bytes of a positive integer, none for 0.
ToBuffer(v) == IF v = 0 THEN <<>> ELSE Append(ToBuffer(v \div 256), v % 256)

\* The v parameters handed to getChainIdFromV: the bytes of a value, as
\* they are or behind a zero byte.
VBuffers ==
    { ToBuffer(v) : v \in 0..MaxV } \cup { <<0>> \o ToBuffer(v) : v \in 0..MaxV }

SelectGroupCalls ==
    { [fn |-> "selectGroup", input |-> <<previousEntry, numberOfGroups>>, done |-> FALSE, result |-> 0] :
        previousEntry \in (0 - MaxEntry)..MaxEntry, numberOfGroups \in 0..MaxGroups }

GetChainIdFromVCalls ==
    { [fn |-> "getChainIdFromV", input |-> vInHex, done |-> FALSE, result |-> NaN] : vInHex \in VBuffers }

MaxUnmask == 15

\* SignRound6 called by a signer of a session on any decrypted unmask
\* value and any 32-byte digest.
SignRound6Calls ==
    { [fn |-> "SignRound6", input |-> <<signatureUnmask, hash>>, done |-> FALSE, result |-> Nil] :
        signatureUnmask \in 0..MaxUnmask, hash \in MessageHashes }

FunctionInit ==
    /\ SigningIdle
    /\ fm = Nil
    /\ verifyCall = Nil
    /\ localChain = Nil
    /\ \/ calc \in SelectGroupCalls
       \/ calc \in GetChainIdFromVCalls
       \/ calc \in SignRound6Calls

DoSelectGroup ==
    /\ calc # Nil
    /\ calc.fn = "selectGroup"
    /\ ~calc.done
    /\ calc' = [calc EXCEPT !.done = TRUE, !.result = selectGroup(calc.input[1], calc.input[2])]
    /\ UNCHANGED <<signingVars, fm, verifyCall, localChain>>

DoGetChainIdFromV ==
    /\ calc # Nil
    /\ calc.fn = "getChainIdFromV"
    /\ ~calc.done
    /\ calc' = [calc EXCEPT !.done = TRUE, !.result = getChainIdFromV(calc.input)]
    /\ UNCHANGED <<signingVars, fm, verifyCall, localChain>>

DoSignRound6Call ==
    /\ calc # Nil
    /\ calc.fn = "SignRound6"
    /\ ~calc.done
    /\ calc' = [calc EXCEPT !.done = TRUE,
                            !.result = SignRound6(SoloRound5[1][1].signer,
                                                  calc.input[1], calc.input[2])]
    /\ UNCHANGED <<signingVars, fm, verifyCall, localChain>>

FunctionNext ==
    \/ DoSelectGroup
    \/ DoGetChainIdFromV
    \/ DoSignRound6Call

FunctionSpec == FunctionInit /\ [][FunctionNext]_vars

Computed(fn) == calc # Nil /\ calc.fn = fn /\ calc.done

\* C29: selectGroup returns 0 when numberOfGroups is 0 and otherwise
\* previousEntry mod numberOfGroups: an index in [0, numberOfGroups) that
\* differs from previousEntry by a multiple of numberOfGroups.
C29_SelectGroup ==
    Computed("selectGroup") =>
        LET previousEntry == calc.input[1]
            numberOfGroups == calc.input[2]
        IN IF numberOfGroups = 0 THEN calc.result = 0
           ELSE /\ calc.result \in 0..(numberOfGroups - 1)
                /\ \E q \in (0 - MaxEntry - 1)..(MaxEntry + 1) :
                       previousEntry = q * numberOfGroups + calc.result

\* A negative previous entry and more than one group.
C29_Witness ==
    /\ Computed("selectGroup")
    /\ calc.input[1] < 0
    /\ calc.input[2] > 1
    /\ calc.result > 0

RECURSIVE ValueOf(_)
\* The value a buffer holds, big-endian.
ValueOf(buffer) ==
    IF buffer = <<>> THEN 0
    ELSE 256 * ValueOf(SubSeq(buffer, 1, Len(buffer) - 1)) + buffer[Len(buffer)]

\* The chain id of v = 2c + 35 and of v = 2c + 36 is c; below 35 it is 0.
InvertsEIP155(vInHex, result) ==
    LET v == ValueOf(vInHex)
    IN /\ v < 35 => result = Number(0)
       /\ \A c \in 0..MaxV : (v = 2 * c + 35 \/ v = 2 * c + 36) => result = Number(c)

RejectedErrors ==
    {"KeyShareRevealMessage rejected", "round 2 message rejected", "round 4 message rejected"}

NoMatchErrors ==
    {"no matching share reveal message", "no matching round 2 message",
     "no matching round 4 message"}

AttendanceErrors == DsaAttendanceErrors \cup CountingErrors("round2") \cup CountingErrors("round4")

\* The validation the combine step of advFn applies to a reveal-round
\* message matched with a commitment-round message.
AdvIsValid(first, second) ==
    IF advFn = "dsa"
    THEN KeyShareRevealIsValid(second, first.publicKeyShareCommitment)
    ELSE IF advFn = "round2"
    THEN Round2MessageIsValid(second, first.secretKeyFactorShareCommitment,
                              AdvRound2Signer.dsaKey.secretKey)
    ELSE Round4MessageIsValid(second, first.signatureFactorShareCommitment,
                              AdvRound4Signer.secretKeyFactor)

\* Commitment-round message k has a same-ID partner that fails validation.
HasInvalidPartner(k) ==
    \E j \in 1..Len(advSecond) :
        /\ advSecond[j].signerID = advFirst[k].signerID
        /\ ~AdvIsValid(advFirst[k], advSecond[j])

\* Commitment-round message k has no same-ID partner.
HasNoPartner(k) ==
    \A j \in 1..Len(advSecond) : advSecond[j].signerID # advFirst[k].signerID

Combined3 == advFn \in {"dsa", "round2", "round4"} /\ advOut # Nil

RightCounts == Len(advFirst) = GroupSize /\ Len(advSecond) = GroupSize

IsRejected(out) == ~out.ok /\ out.err \in RejectedErrors

IsNoMatchFor(out, signerID) ==
    ~out.ok /\ out.err \in NoMatchErrors /\ out.signerID = signerID

\* A wrong count is an attendance error, whatever the messages are.
AttendanceFirst ==
    (Combined3 /\ ~RightCounts) => (~advOut.ok /\ advOut.err \in AttendanceErrors)

\* C31 as stated: the three kinds of error are distinct; a wrong count of
\* either list is an attendance error before any message is validated; with
\* correct counts a matched message that fails validation yields a
\* "rejected" error and a commitment-round message without a same-ID
\* partner yields a "no matching message" error naming its signer.
C31_ErrorKinds ==
    /\ RejectedErrors \cap NoMatchErrors = {}
    /\ AttendanceErrors \cap (RejectedErrors \cup NoMatchErrors) = {}
    /\ AttendanceFirst
    /\ (Combined3 /\ RightCounts) =>
           \A k \in 1..Len(advFirst) :
               /\ HasInvalidPartner(k) => IsRejected(advOut)
               /\ HasNoPartner(k) => IsNoMatchFor(advOut, advFirst[k].signerID)

\* C31 amended: with correct counts the commitment-round messages are taken
\* in list order and the first with an invalid partner or without a partner
\* decides the error; the call succeeds when there is none.
C31_FirstFailureDecides ==
    /\ RejectedErrors \cap NoMatchErrors = {}
    /\ AttendanceErrors \cap (RejectedErrors \cup NoMatchErrors) = {}
    /\ AttendanceFirst
    /\ (Combined3 /\ RightCounts) =>
           LET failing == { k \in 1..Len(advFirst) : HasInvalidPartner(k) \/ HasNoPartner(k) }
           IN IF failing = {} THEN advOut.ok
              ELSE LET first == CHOOSE k \in failing : \A j \in failing : k <= j
                   IN /\ HasInvalidPartner(first) => IsRejected(advOut)
                      /\ HasNoPartner(first) => IsNoMatchFor(advOut, advFirst[first].signerID)

\* A commitment-round message without a partner ahead of one whose partner
\* is invalid: the error names the first.
C31_Witness ==
    /\ Combined3
    /\ RightCounts
    /\ \E k, later \in 1..Len(advFirst) :
          /\ k < later
          /\ HasNoPartner(k)
          /\ HasInvalidPartner(later)
          /\ \A j \in 1..(k - 1) : ~HasNoPartner(j) /\ ~HasInvalidPartner(j)
          /\ IsNoMatchFor(advOut, advFirst[k].signerID)

SignerIDs(messages) == { messages[k].signerID : k \in 1..Len(messages) }

DistinctSignerIDs(messages) == Cardinality(SignerIDs(messages)) = Len(messages)

\* What the combine step of advFn makes of a list of reveal-round messages
\* each taken once.
AdvCombineOnce(messages) ==
    IF advFn = "dsa" THEN DsaCombineShares(messages)
    ELSE IF advFn = "round2" THEN Round2CombineShares(messages)
    ELSE Round4CombineShares(messages)

\* C32: when the commitment-round messages carry pairwise distinct signer
\* IDs and the call succeeds, the reveal-round messages carry pairwise
\* distinct signer IDs too, the two ID sets are equal, there is one share per
\* commitment-round message and the result combines each revealed share
\* exactly once.
C32_EachShareOnce ==
    (Combined3 /\ advOut.ok /\ DistinctSignerIDs(advFirst)) =>
        /\ DistinctSignerIDs(advSecond)
        /\ SignerIDs(advSecond) = SignerIDs(advFirst)
        /\ Len(advSecond) = Len(advFirst)
        /\ advOut.value = AdvCombineOnce(advSecond)

\* A successful call on reveal-round messages that arrived in another order
\* than the commitment-round ones.
C32_Witness ==
    /\ Combined3
    /\ advOut.ok
    /\ advFaults > 0
    /\ DistinctSignerIDs(advFirst)
    /\ advSecond[1].signerID # advFirst[1].signerID

\* Signer i of session x has returned a signature.
HasSigned(x, i) ==
    sessions[x].signature[i] # Nil /\ sessions[x].signature[i].ok

\* The signers of session x that hold a Round5Signer with the combined
\* values and have sent their round-6 message.
FinalCombiners(x) == { j \in Signers : sessions[x].stage[j] \in {"Sent6", "Done"} }

\* (x-coordinate of the sum of the revealed r_i) mod curveOrder
FactorHashOf(round4Messages) ==
    Mod(CurveSumFrom([k \in 1..Len(round4Messages) |->
                          round4Messages[k].signatureFactorPublicShare], 1).X,
        curveCardinality)

\* C33: the signers that complete a session return the same Signature: R is
\* the x-coordinate of the sum of the revealed signature-factor public
\* shares modulo the curve order, and R and S are the same whichever signer
\* performs the final combine and in whatever order the round-5 and round-6
\* messages are handed over.
C33_Agreement ==
    \A x \in SessionIds, i \in Signers :
        HasSigned(x, i) =>
            LET sig == sessions[x].signature[i]
                round5 == sessions[x].messages[5]
                round6 == sessions[x].messages[6]
            IN /\ \A j \in Signers : HasSigned(x, j) => sessions[x].signature[j] = sig
               /\ sig.value.R = FactorHashOf(sessions[x].messages[4])
               /\ \A j \in FinalCombiners(x), f \in Orders(Len(round6)) :
                      CombineRound6Messages(Current(x, j), Permute(round6, f)) = sig
               /\ \A j \in FinalCombiners(x), f \in Orders(Len(round5)) :
                      CombineRound5Messages(Current(x, j), Permute(round5, f))
                          = sessions[x].ret[i]

\* Every signer of both sessions has returned a signature, and the two
\* sessions did not sign with the same R.
C33_Witness ==
    /\ \A x \in SessionIds, i \in Signers : HasSigned(x, i)
    /\ sessions[1].signature[1].value.R # sessions[2].signature[1].value.R

\* A plaintext the Paillier modulus does not reduce.
InPlaintextSpace(value) == value >= 0 /\ value < PaillierN

\* The plaintexts of the key generation: the shares and their sum, the
\* combined secret key.
KeyPlaintextsFit ==
    /\ \A k \in 1..Len(revealedShares) :
           revealedShares[k].secretKeyShare.pt < curveCardinality
    /\ InPlaintextSpace(
           PaillierSum([k \in 1..Len(revealedShares) |-> revealedShares[k].secretKeyShare], 1))

\* The plaintexts of rounds 1 and 2: rho_i * x of each signer, and the sums
\* u and v of the shares.
FactorPlaintextsFit ==
    /\ \A i \in Signers :
           stage[i] = "Round1Signer" =>
               /\ signer[i].secretKeyFactorShare < curveCardinality
               /\ InPlaintextSpace(signer[i].dsaKey.secretKey.pt * signer[i].secretKeyFactorShare)
               /\ signer[i].secretKeyMultipleShare.pt
                      = signer[i].dsaKey.secretKey.pt * signer[i].secretKeyFactorShare
    /\ InPlaintextSpace(
           PaillierSum([k \in 1..Len(roundMessages[2]) |->
                            roundMessages[2][k].secretKeyFactorShare], 1))
    /\ InPlaintextSpace(
           PaillierSum([k \in 1..Len(roundMessages[2]) |->
                            roundMessages[2][k].secretKeyMultipleShare], 1))

\* The plaintexts of rounds 3 and 4: w_i = k_i * rho + c_i * q of each
\* signer, and their sum w.
UnmaskPlaintextsFit ==
    /\ \A i \in Signers :
           stage[i] = "Round3Signer" =>
               LET masked == signer[i].secretKeyFactor.pt * signer[i].signatureFactorSecretShare
                   mask == signer[i].signatureFactorMaskShare * curveCardinality
               IN /\ signer[i].signatureFactorSecretShare < curveCardinality
                  /\ signer[i].signatureFactorMaskShare < curveCardinality^6
                  /\ InPlaintextSpace(masked)
                  /\ InPlaintextSpace(mask)
                  /\ InPlaintextSpace(masked + mask)
                  /\ signer[i].signatureUnmaskShare.pt = masked + mask
    /\ InPlaintextSpace(
           PaillierSum([k \in 1..Len(roundMessages[4]) |->
                            roundMessages[4][k].signatureUnmaskShare], 1))

\* The plaintext of round 6, (u * m + v * r) * w^-1, for every digest a
\* signer that holds the decrypted w may be handed.
SignaturePlaintextFits ==
    \A i \in Signers, hash \in MessageHashes :
        stage[i] = "Combined5" =>
            LET inverse == ModInverse(ret[i].value, curveCardinality)
                um == signer[i].secretKeyFactor.pt * SetBytes(hash)
                vr == signer[i].secretKeyMultiple.pt * signer[i].signatureFactorPublicHash
            IN /\ InPlaintextSpace(ret[i].value)
               /\ InPlaintextSpace(um)
               /\ InPlaintextSpace(vr)
               /\ InPlaintextSpace(um + vr)
               /\ inverse # -1 => InPlaintextSpace((um + vr) * inverse)

\* C34: with N > q^8, shares in [0, q) and masks in [0, q^6), every
\* plaintext under the homomorphic computations (the combined secret key,
\* u, v, each w_i and their sum w, and (u * m + v * r) * w^-1) is
\* non-negative and below N: the reduction modulo N alters none of them.
C34_NoWrapAround ==
    /\ KeyPlaintextsFit
    /\ FactorPlaintextsFit
    /\ UnmaskPlaintextsFit
    /\ SignaturePlaintextFits

\* Every signer drew the largest shares and the largest mask, and the last
\* of them is about to compute the signature cypher from the decrypted w.
C34_Witness ==
    /\ stage[GroupSize] = "Combined5"
    /\ ret[GroupSize].ok
    /\ ret[GroupSize].value > curveCardinality^7
    /\ signer[GroupSize].secretKeyFactor.pt = GroupSize * (curveCardinality - 1)
    /\ signer[GroupSize].dsaKey.secretKey.pt = GroupSize * (curveCardinality - 1)

\* C35: for every 32-byte digest and every signatureUnmask, those that are
\* 0 modulo the curve order included, SignRound6 returns a round-6 message
\* or an error and fails in no other way.
C35_DefinedOutcome ==
    (Computed("SignRound6") /\ Len(calc.input[2]) = HashLength) =>
        \/ calc.result.ok /\ "signaturePartialDecryption" \in DOMAIN calc.result.value
        \/ ~calc.result.ok /\ "panic" \notin DOMAIN calc.result

\* The messages of the call delivered in two successive calls instead, the
\* first n in one call and the rest in the next, to the member as it was
\* before the call.
DeliveredInTwoCalls(n) ==
    LET messages == verifyCall.messages
        first  == VerifyDKGResultSignatures(verifyCall.before, SubSeq(messages, 1, n))
        second == VerifyDKGResultSignatures(first.fm, SubSeq(messages, n + 1, Len(messages)))
    IN [fm      |-> second.fm,
        accused |-> DOMAIN first.accusations \cup DOMAIN second.accusations]

\* C36: delivering a list of messages to VerifyDKGResultSignatures in
\* successive calls leaves the same receivedValidResultSignatures and
\* accuses the same members, over the calls together, as delivering the
\* whole list in one call; a member whose two signatures arrive in two
\* different calls is accused and keeps no stored signature.
C36_BatchCompositional ==
    verifyCall # Nil =>
        \A n \in 0..Len(verifyCall.messages) :
            /\ DeliveredInTwoCalls(n).fm.receivedValidResultSignatures
                   = fm.receivedValidResultSignatures
            /\ DeliveredInTwoCalls(n).accused = DOMAIN verifyCall.accusations

====
